---- MODULE Spec2Model ----
(***************************************************************************)
(* Object-detection evaluation and weather filtering of                    *)
(* bioscout_tech_challenge:                                                *)
(*   models/bounding_box.py   BoundingBox, its constructors, calculate_iou *)
(*   imagery/metrics.py       find_true_positives, find_box_matches,       *)
(*                            calculate_metrics_for_predictions            *)
(*   cli.py, utils/weather.py filter_weather, apply_single_filter,         *)
(*                            filter_weather_data, merge_command,          *)
(*                            merge_weather_data, flatten_weather          *)
(*   utils/file_operations.py read_json_file, read_csv_file,               *)
(*                            identify_header                              *)
(*   utils/bounding_box.py    df_to_bounding_boxes                         *)
(*                                                                         *)
(* Numbers.  The code computes with Python numbers.  In the matching calls *)
(* and in calculate_iou the box coordinates are small integers, on which   *)
(* float arithmetic is exact; calculate_iou_float and the constructors     *)
(* compute on ratios with every operation rounded as a binary float rounds *)
(* (see Fl).  With integer coordinates                                     *)
(* every area is an integer and every quotient the                         *)
(* code forms is a ratio of two small integers.  A quotient is kept as the *)
(* pair <<numerator, denominator>> with a positive denominator and is      *)
(* compared by cross multiplication; for such ratios and the dyadic        *)
(* thresholds used here Python's float comparison gives the same answer.   *)
(* A division whose divisor is 0 raises ZeroDivisionError in Python; it is *)
(* modelled as the outcome raised = TRUE, never as a value.                *)
(*                                                                         *)
(* Indices are 0-based as in the code; sequence s of the model holds the   *)
(* code's s[i] at position i + 1.  Python's None is the integer NoneIdx.   *)
(***************************************************************************)
EXTENDS Integers, Sequences, FiniteSets, TLC

VARIABLES
    op,                 \* the function being called
    pc,                 \* "call" | "loop" | "returned" | "raised"
    predicted_boxes,    \* argument: sequence of boxes
    ground_truth_boxes, \* argument: sequence of boxes
    iou_threshold,      \* argument: a ratio
    pred_idx,           \* number of predicted boxes the outer loop has finished
    true_positives,     \* find_true_positives: local counter
    matched_gt_boxes,   \* find_true_positives: local set
    matches,            \* find_box_matches: local dict (a function)
    used_gt_boxes,      \* find_box_matches: local set
    best_iou,           \* local of the last finished outer iteration
    best_gt_idx,        \* local of the last finished outer iteration
    metrics,            \* dict returned by calculate_metrics_for_predictions
    box_a, box_b,       \* calculate_iou: self and other
    iou_result,         \* calculate_iou: outcome
    arithmetic,         \* "exact" | "float": how the geometry calls compute
    args,               \* arguments of a BoundingBox construction
    built,              \* outcome of the construction: a box, or an error
    pixel_box,          \* tuple returned by to_absolute_coordinates
    calls,              \* frames of the matching calls that run interleaved
    data_df,            \* filter_weather: rows read from the input file
    filter_config,      \* filter_weather: content of the filter file
    modified_df,        \* filter_weather: the working copy of the rows
    output_file,        \* rows written by a command, or nothing written
    weather_df,         \* merge_command: rows read from the weather file
    device_df,          \* merge_command: rows read from the device file
    merge_column,       \* merge_command: opts.merge_column
    merged_df,          \* merge_command: outcome of merge_weather_data
    filter_file,        \* filter_weather: the file at opts.filter_file
    input_file,         \* filter_weather: the file at opts.file
    log,                \* what the command logged as errors or printed
    matching_indices,   \* outcome of apply_single_filter / filter_weather_data
    boxes_df,           \* df_to_bounding_boxes: df, the frame of box coordinates
    method,             \* df_to_bounding_boxes: 'direct' | 'centroid' | 'absolute'
    columns,            \* df_to_bounding_boxes: the caller's list of column names;
                        \* flatten_weather: the columns of the frame read last
    file_name,          \* df_to_bounding_boxes: name of the column of file names
    results,            \* df_to_bounding_boxes: outcomes of the calls so far
    files,              \* flatten_weather: the list of input files
    header_locations,   \* flatten_weather: identify_header of each file, as listed
    reads,              \* flatten_weather: how each file of the loop was read
    written             \* flatten_weather: the files saved, by input file name

geometry_vars == <<arithmetic, args, built, pixel_box>>
filter_vars == <<data_df, filter_config, modified_df, output_file>>
merge_vars == <<weather_df, device_df, merge_column, merged_df>>
file_vars == <<filter_file, input_file, log>>
boxes_vars == <<boxes_df, method, columns, file_name, results>>
flatten_vars == <<files, header_locations, reads, written>>
command_vars == <<merge_vars, file_vars, matching_indices, boxes_vars, flatten_vars>>

vars == <<op, pc, predicted_boxes, ground_truth_boxes, iou_threshold, pred_idx,
          true_positives, matched_gt_boxes, matches, used_gt_boxes,
          best_iou, best_gt_idx, metrics, box_a, box_b, iou_result,
          geometry_vars, calls, filter_vars, command_vars>>

----------------------------------------------------------------------------
(* Bounds of the model *)

MaxPredicted == 2
MaxGroundTruth == 2
MaxCoord == 2

----------------------------------------------------------------------------
(* Values *)

NoneIdx == -1

Box(x, y, w, h) == [x |-> x, y |-> y, width |-> w, height |-> h]

Max2(a, b) == IF a >= b THEN a ELSE b
Min2(a, b) == IF a <= b THEN a ELSE b

\* a ratio n/d, d # 0, kept with a positive denominator
Ratio(n, d) == IF d < 0 THEN <<-n, -d>> ELSE <<n, d>>
Zero == <<0, 1>>
RatLt(a, b) == a[1] * b[2] < b[1] * a[2]
RatLe(a, b) == a[1] * b[2] <= b[1] * a[2]
RatEq(a, b) == a[1] * b[2] = b[1] * a[2]
RatGt(a, b) == RatLt(b, a)
RatGe(a, b) == RatLe(b, a)

\* outcome of an expression that may divide: a value, or ZeroDivisionError
Value(v) == [raised |-> FALSE, val |-> v]
ZeroDivisionError == [raised |-> TRUE, val |-> Zero]
Divide(n, d) == IF d = 0 THEN ZeroDivisionError ELSE Value(Ratio(n, d))

----------------------------------------------------------------------------
(* Numbers of the geometry calls.                                          *)
(*                                                                         *)
(* A number is a ratio in lowest terms.  Python's float is a binary        *)
(* floating-point number: every operation returns the exact result rounded *)
(* to the nearest number with a fixed count of significant bits, ties to   *)
(* the even significand.  The model rounds the same way to Precision bits  *)
(* (53 in Python), with an unbounded exponent.  Under arithmetic = "exact" *)
(* nothing is rounded.                                                     *)

Precision == 5
MaxDen == 3
MaxPixels == 7

Abs(n) == IF n < 0 THEN -n ELSE n

RECURSIVE Gcd(_, _)
Gcd(a, b) == IF b = 0 THEN a ELSE Gcd(b, a % b)

\* r in lowest terms with a positive denominator
Reduce(r) ==
    LET q == Ratio(r[1], r[2])
        g == Gcd(Abs(q[1]), q[2])
    IN  <<(IF q[1] < 0 THEN -1 ELSE 1) * (Abs(q[1]) \div g), q[2] \div g>>

RECURSIVE Pow2(_)
Pow2(k) == IF k = 0 THEN 1 ELSE 2 * Pow2(k - 1)

\* a / d > 0 scaled by a power of two into [2^(Precision-1), 2^Precision),
\* rounded to the nearest integer (ties to even), and scaled back: up / down
\* is the power of two
RECURSIVE RoundScaled(_, _, _, _)
RoundScaled(a, d, up, down) ==
    IF a >= d * Pow2(Precision)
    THEN RoundScaled(a, 2 * d, 2 * up, down)
    ELSE IF a < d * Pow2(Precision - 1)
    THEN RoundScaled(2 * a, d, up, 2 * down)
    ELSE LET q   == a \div d
             rem == a % d
             m   == IF 2 * rem > d \/ (2 * rem = d /\ q % 2 = 1) THEN q + 1 ELSE q
         IN  <<m * up, down>>

\* the float nearest to the ratio r
RoundToFloat(r) ==
    LET q == Ratio(r[1], r[2])
    IN  IF q[1] = 0 THEN Zero
        ELSE LET v == RoundScaled(Abs(q[1]), q[2], 1, 1)
             IN  Reduce(<<(IF q[1] < 0 THEN -1 ELSE 1) * v[1], v[2]>>)

\* the result of an operation whose exact value is r
Fl(r) == IF arithmetic = "float" THEN RoundToFloat(r) ELSE Reduce(r)

Num(n) == <<n, 1>>
NAdd(a, b) == Fl(<<a[1] * b[2] + b[1] * a[2], a[2] * b[2]>>)
NSub(a, b) == Fl(<<a[1] * b[2] - b[1] * a[2], a[2] * b[2]>>)
NMul(a, b) == Fl(<<a[1] * b[1], a[2] * b[2]>>)
NDiv(a, b) == IF b[1] = 0 THEN ZeroDivisionError ELSE Value(Fl(<<a[1] * b[2], a[2] * b[1]>>))
NMax(a, b) == IF RatGe(a, b) THEN a ELSE b
NMin(a, b) == IF RatLe(a, b) THEN a ELSE b

\* int(r): the integer part of r, truncated toward zero
Trunc(r) == IF r[1] >= 0 THEN r[1] \div r[2] ELSE -((-r[1]) \div r[2])

\* outcome of a BoundingBox construction
Built(b) == [raised |-> FALSE, box |-> b]
ConstructionError == [raised |-> TRUE, box |-> Box(0, 0, 0, 0)]

----------------------------------------------------------------------------
(* models/bounding_box.py *)

\* a calculate_iou whose union is the area of self alone
calculate_iou_own_area(self, other) ==
    LET x_left   == Max2(self.x, other.x)
        y_top    == Max2(self.y, other.y)
        x_right  == Min2(self.x + self.width, other.x + other.width)
        y_bottom == Min2(self.y + self.height, other.y + other.height)
        intersection_area == (x_right - x_left) * (y_bottom - y_top)
        union_area == self.width * self.height
    IN  IF x_right < x_left \/ y_bottom < y_top
        THEN Value(Zero)
        ELSE Divide(intersection_area, union_area)

\* a calculate_iou without the no-overlap test of lines 61-62
calculate_iou_unclamped(self, other) ==
    LET x_left   == Max2(self.x, other.x)
        y_top    == Max2(self.y, other.y)
        x_right  == Min2(self.x + self.width, other.x + other.width)
        y_bottom == Min2(self.y + self.height, other.y + other.height)
        intersection_area == (x_right - x_left) * (y_bottom - y_top)
        box1_area  == self.width * self.height
        box2_area  == other.width * other.height
        union_area == box1_area + box2_area - intersection_area
    IN  Divide(intersection_area, union_area)

\* BoundingBox.calculate_iou(self, other)
calculate_iou(self, other) ==
    LET x_left   == Max2(self.x, other.x)
        y_top    == Max2(self.y, other.y)
        x_right  == Min2(self.x + self.width, other.x + other.width)
        y_bottom == Min2(self.y + self.height, other.y + other.height)
        intersection_area == (x_right - x_left) * (y_bottom - y_top)
        box1_area  == self.width * self.height
        box2_area  == other.width * other.height
        union_area == box1_area + box2_area - intersection_area
    IN  IF x_right < x_left \/ y_bottom < y_top
        THEN Value(Zero)
        ELSE Divide(intersection_area, union_area)

\* BoundingBox.calculate_iou(self, other) on boxes whose fields are numbers,
\* every operation of lines 55-72 rounded as Fl rounds
calculate_iou_float(self, other) ==
    LET x_left   == NMax(self.x, other.x)
        y_top    == NMax(self.y, other.y)
        x_right  == NMin(NAdd(self.x, self.width), NAdd(other.x, other.width))
        y_bottom == NMin(NAdd(self.y, self.height), NAdd(other.y, other.height))
        intersection_area == NMul(NSub(x_right, x_left), NSub(y_bottom, y_top))
        box1_area  == NMul(self.width, self.height)
        box2_area  == NMul(other.width, other.height)
        union_area == NSub(NAdd(box1_area, box2_area), intersection_area)
    IN  IF RatLt(x_right, x_left) \/ RatLt(y_bottom, y_top)
        THEN Value(Zero)
        ELSE NDiv(intersection_area, union_area)

\* a from_absolute_coordinates that guards its divisors as calculate_precision
\* does, giving 0 for a zero image dimension
from_absolute_coordinates_guarded(x_min, y_min, x_max, y_max, image_width, image_height) ==
    LET Guarded(a, b) == IF b[1] = 0 THEN Zero ELSE NDiv(a, b).val
    IN  Built(Box(Guarded(x_min, image_width),
                  Guarded(y_min, image_height),
                  Guarded(NSub(x_max, x_min), image_width),
                  Guarded(NSub(y_max, y_min), image_height)))

\* BoundingBox.from_absolute_coordinates(x_min, y_min, x_max, y_max,
\*                                       image_width, image_height)
from_absolute_coordinates(x_min, y_min, x_max, y_max, image_width, image_height) ==
    LET x      == NDiv(x_min, image_width)
        y      == NDiv(y_min, image_height)
        width  == NDiv(NSub(x_max, x_min), image_width)
        height == NDiv(NSub(y_max, y_min), image_height)
    IN  IF x.raised \/ y.raised \/ width.raised \/ height.raised
        THEN ConstructionError
        ELSE Built(Box(x.val, y.val, width.val, height.val))

\* a from_centroid that takes the centre for the top-left corner
from_centroid_as_corner(x, y, width, height) == Built(Box(x, y, width, height))

\* BoundingBox.from_centroid(x, y, width, height)
from_centroid(x, y, width, height) ==
    Built(Box(NSub(x, NDiv(width, Num(2)).val),
              NSub(y, NDiv(height, Num(2)).val),
              width, height))

\* a to_absolute_coordinates whose far corner is the size alone
to_absolute_coordinates_size(self, image_width, image_height) ==
    <<Trunc(NMul(self.x, image_width)),
      Trunc(NMul(self.y, image_height)),
      Trunc(NMul(self.width, image_width)),
      Trunc(NMul(self.height, image_height))>>

\* BoundingBox.to_absolute_coordinates(self, image_width, image_height)
to_absolute_coordinates(self, image_width, image_height) ==
    <<Trunc(NMul(self.x, image_width)),
      Trunc(NMul(self.y, image_height)),
      Trunc(NMul(NAdd(self.x, self.width), image_width)),
      Trunc(NMul(NAdd(self.y, self.height), image_height))>>

----------------------------------------------------------------------------
(* imagery/metrics.py *)

\* a calculate_precision without the guard on its divisor
calculate_precision_unguarded(tp, no_predicted_boxes) == Divide(tp, no_predicted_boxes)

\* calculate_precision(true_positives, no_predicted_boxes)
calculate_precision(tp, no_predicted_boxes) ==
    IF no_predicted_boxes # 0 THEN Divide(tp, no_predicted_boxes) ELSE Value(Zero)

\* calculate_recall(true_positives, no_ground_truth_boxes)
calculate_recall(tp, no_ground_truth_boxes) ==
    IF no_ground_truth_boxes # 0 THEN Divide(tp, no_ground_truth_boxes) ELSE Value(Zero)

\* a calculate_f1 that forgets the factor 2
calculate_f1_halved(precision, recall) ==
    LET product == <<precision[1] * recall[1], precision[2] * recall[2]>>
        sum     == <<precision[1] * recall[2] + recall[1] * precision[2],
                     precision[2] * recall[2]>>
    IN  IF RatGt(sum, Zero)
        THEN Divide(product[1] * sum[2], product[2] * sum[1])
        ELSE Value(Zero)

\* calculate_f1(precision, recall): 2 * (p * r) / (p + r) if (p + r) > 0 else 0
calculate_f1(precision, recall) ==
    LET product == <<precision[1] * recall[1], precision[2] * recall[2]>>
        sum     == <<precision[1] * recall[2] + recall[1] * precision[2],
                     precision[2] * recall[2]>>
    IN  IF RatGt(sum, Zero)
        THEN Divide(2 * product[1] * sum[2], product[2] * sum[1])
        ELSE Value(Zero)

\* a find_true_positives that forgets which ground-truth boxes are matched
ftp_skips_nothing(idx, matched) == FALSE

\* find_true_positives, line 72: a ground-truth box already matched is skipped
ftp_skips(idx, matched) == idx \in matched

\* a find_true_positives whose comparison is >= instead of >
ftp_improves_or_ties(iou, best) == RatGe(iou, best)

\* find_true_positives, line 76: the best candidate changes on a strictly greater IoU
ftp_improves(iou, best) == RatGt(iou, best)

\* a find_true_positives that accepts only above the threshold
ftp_accepts_strictly(best, threshold) == RatGt(best, threshold)

\* find_true_positives, line 80: the best IoU is accepted at or above the threshold
ftp_accepts(best, threshold) == RatGe(best, threshold)

\* find_true_positives, lines 71-78: the scan of the ground-truth boxes for one
\* predicted box, from index idx on, with the running best_iou / best_gt_idx
RECURSIVE ftp_scan(_, _, _, _, _, _)
ftp_scan(pred_box, gts, matched, idx, bi, bg) ==
    IF idx >= Len(gts)
    THEN [raised |-> FALSE, best_iou |-> bi, best_gt_idx |-> bg]
    ELSE IF ftp_skips(idx, matched)
    THEN ftp_scan(pred_box, gts, matched, idx + 1, bi, bg)
    ELSE LET iou == calculate_iou(pred_box, gts[idx + 1])
         IN  IF iou.raised
             THEN [raised |-> TRUE, best_iou |-> bi, best_gt_idx |-> bg]
             ELSE IF ftp_improves(iou.val, bi)
             THEN ftp_scan(pred_box, gts, matched, idx + 1, iou.val, idx)
             ELSE ftp_scan(pred_box, gts, matched, idx + 1, bi, bg)

\* a find_box_matches that forgets which ground-truth boxes are used
fbm_skips_nothing(gt_idx, used) == FALSE

\* find_box_matches, line 142
fbm_skips(gt_idx, used) == gt_idx \in used

\* a find_box_matches whose comparison is >= instead of >
fbm_improves_or_ties(iou, best) == RatGe(iou, best)

\* find_box_matches, line 146
fbm_improves(iou, best) == RatGt(iou, best)

\* a find_box_matches whose best_iou starts at 0
fbm_initial_best_zero(threshold) == Zero

\* find_box_matches, line 138: best_iou starts at the threshold
fbm_initial_best(threshold) == threshold

\* a find_box_matches that takes the first ground-truth box above the threshold
RECURSIVE fbm_scan_first_fit(_, _, _, _, _, _)
fbm_scan_first_fit(pred_box, gts, used, gt_idx, bi, bg) ==
    IF gt_idx >= Len(gts)
    THEN [raised |-> FALSE, best_iou |-> bi, best_gt_idx |-> bg]
    ELSE IF fbm_skips(gt_idx, used)
    THEN fbm_scan_first_fit(pred_box, gts, used, gt_idx + 1, bi, bg)
    ELSE LET iou == calculate_iou(pred_box, gts[gt_idx + 1])
         IN  IF iou.raised
             THEN [raised |-> TRUE, best_iou |-> bi, best_gt_idx |-> bg]
             ELSE IF fbm_improves(iou.val, bi)
             THEN [raised |-> FALSE, best_iou |-> iou.val, best_gt_idx |-> gt_idx]
             ELSE fbm_scan_first_fit(pred_box, gts, used, gt_idx + 1, bi, bg)

\* find_box_matches, lines 141-148
RECURSIVE fbm_scan(_, _, _, _, _, _)
fbm_scan(pred_box, gts, used, gt_idx, bi, bg) ==
    IF gt_idx >= Len(gts)
    THEN [raised |-> FALSE, best_iou |-> bi, best_gt_idx |-> bg]
    ELSE IF fbm_skips(gt_idx, used)
    THEN fbm_scan(pred_box, gts, used, gt_idx + 1, bi, bg)
    ELSE LET iou == calculate_iou(pred_box, gts[gt_idx + 1])
         IN  IF iou.raised
             THEN [raised |-> TRUE, best_iou |-> bi, best_gt_idx |-> bg]
             ELSE IF fbm_improves(iou.val, bi)
             THEN fbm_scan(pred_box, gts, used, gt_idx + 1, iou.val, gt_idx)
             ELSE fbm_scan(pred_box, gts, used, gt_idx + 1, bi, bg)

\* a find_box_matches that keeps only its latest match
fbm_record_latest(m, p, g) == [k \in {p} |-> g]

\* find_box_matches, lines 150-152: matches[pred_idx] = best_gt_idx
fbm_record(m, p, g) == [k \in DOMAIN m \cup {p} |-> IF k = p THEN g ELSE m[k]]

----------------------------------------------------------------------------
(* The calls *)

Thresholds == {<<-1, 2>>, <<0, 1>>, <<1, 4>>, <<1, 2>>, <<1, 1>>, <<3, 2>>}
DefaultThreshold == <<1, 2>>

\* boxes the calls are given: three boxes with IoU 1/2, 1/4 and 1/2 between
\* them and a zero-area box
BoxUniverse ==
    {Box(0, 0, 2, 2), Box(0, 0, 2, 1), Box(0, 0, 1, 1), Box(0, 0, 0, 0)}

\* the boxes of the end-to-end scenario, pairwise disjoint
ScenarioBoxes == {Box(0, 0, 1, 1), Box(5, 5, 1, 1), Box(10, 10, 1, 1)}

\* the variables of the parts of the program a specification does not run
NoArgs == <<>>
NoBox == [raised |-> FALSE, box |-> Box(0, 0, 0, 0)]
NoPixels == <<>>
NoGeometryCall ==
    arithmetic = "exact" /\ args = NoArgs /\ built = NoBox /\ pixel_box = NoPixels
NoConcurrentCalls == calls = <<>>
NoFile == "nothing written"
\* read_csv_file returns None for a file it cannot read
None == [none |-> TRUE]
NoFilterCommand ==
    data_df = <<>> /\ filter_config = <<>> /\ modified_df = <<>> /\ output_file = NoFile

NoMergeCommand ==
    weather_df = <<>> /\ device_df = <<>> /\ merge_column = "" /\ merged_df = <<>>
NoFiles == filter_file = <<>> /\ input_file = <<>> /\ log = <<>>
NoFilterDataCall == matching_indices = <<>>
NoBoxesCall ==
    boxes_df = <<>> /\ method = "" /\ columns = <<>> /\ file_name = "" /\ results = <<>>
NoFlattenCommand ==
    files = <<>> /\ header_locations = <<>> /\ reads = <<>> /\ written = <<>>
NoOtherCommand ==
    NoMergeCommand /\ NoFiles /\ NoFilterDataCall /\ NoBoxesCall /\ NoFlattenCommand

SeqsUpTo(S, n) == UNION {[1..k -> S] : k \in 0..n}

NoMatches == [k \in {} |-> 0]
NoMetrics == [k \in {} |-> Zero]

MatchOps == {"find_true_positives", "find_box_matches",
             "calculate_metrics_for_predictions"}

\* the state on entry to a matching call: lines 64-65 and 134-135
InitOver(boxes) ==
    /\ op \in MatchOps
    /\ pc = "loop"
    /\ predicted_boxes \in SeqsUpTo(boxes, MaxPredicted)
    /\ ground_truth_boxes \in SeqsUpTo(boxes, MaxGroundTruth)
    /\ iou_threshold \in Thresholds
    /\ pred_idx = 0
    /\ true_positives = 0
    /\ matched_gt_boxes = {}
    /\ matches = NoMatches
    /\ used_gt_boxes = {}
    /\ best_iou = Zero
    /\ best_gt_idx = NoneIdx
    /\ metrics = NoMetrics
    /\ box_a = Box(0, 0, 0, 0)
    /\ box_b = Box(0, 0, 0, 0)
    /\ iou_result = Value(Zero)
    /\ NoGeometryCall /\ NoConcurrentCalls /\ NoFilterCommand /\ NoOtherCommand

\* find_true_positives, lines 67-82: one iteration of the outer loop
find_true_positives_loop ==
    /\ op \in {"find_true_positives", "calculate_metrics_for_predictions"}
    /\ pc = "loop"
    /\ pred_idx < Len(predicted_boxes)
    /\ LET r == ftp_scan(predicted_boxes[pred_idx + 1], ground_truth_boxes,
                         matched_gt_boxes, 0, Zero, NoneIdx)
       IN  IF r.raised
           THEN /\ pc' = "raised"
                /\ UNCHANGED <<pred_idx, true_positives, matched_gt_boxes,
                               best_iou, best_gt_idx>>
           ELSE /\ pc' = pc
                /\ pred_idx' = pred_idx + 1
                /\ best_iou' = r.best_iou
                /\ best_gt_idx' = r.best_gt_idx
                /\ IF ftp_accepts(r.best_iou, iou_threshold)
                   THEN /\ true_positives' = true_positives + 1
                        /\ matched_gt_boxes' = matched_gt_boxes \cup {r.best_gt_idx}
                   ELSE UNCHANGED <<true_positives, matched_gt_boxes>>
    /\ UNCHANGED <<op, predicted_boxes, ground_truth_boxes, iou_threshold,
                   matches, used_gt_boxes, metrics, box_a, box_b, iou_result>>
    /\ UNCHANGED <<geometry_vars, calls, filter_vars, command_vars>>

\* find_true_positives, line 84
find_true_positives_return ==
    /\ op = "find_true_positives"
    /\ pc = "loop"
    /\ pred_idx = Len(predicted_boxes)
    /\ pc' = "returned"
    /\ UNCHANGED <<op, predicted_boxes, ground_truth_boxes, iou_threshold, pred_idx,
                   true_positives, matched_gt_boxes, matches, used_gt_boxes,
                   best_iou, best_gt_idx, metrics, box_a, box_b, iou_result>>
    /\ UNCHANGED <<geometry_vars, calls, filter_vars, command_vars>>

\* calculate_metrics_for_predictions, lines 104-117: the dictionary built from
\* the count of true positives and the two lengths
metrics_dict(tp, no_predicted, no_labelled) ==
    LET precision == calculate_precision(tp, no_predicted)
        recall    == calculate_recall(tp, no_labelled)
        f1        == calculate_f1(precision.val, recall.val)
    IN  IF precision.raised \/ recall.raised \/ f1.raised
        THEN [raised |-> TRUE, val |-> NoMetrics]
        ELSE [raised |-> FALSE,
              val |-> [precision       |-> precision.val,
                       recall          |-> recall.val,
                       f1_score        |-> f1.val,
                       true_positives  |-> <<tp, 1>>,
                       false_positives |-> <<no_predicted - tp, 1>>,
                       false_negatives |-> <<no_labelled - tp, 1>>,
                       labelled_boxes  |-> <<no_labelled, 1>>,
                       predicted_boxes |-> <<no_predicted, 1>>]]

\* calculate_metrics_for_predictions, lines 104-117, once the call of line 100
\* has returned
calculate_metrics_for_predictions ==
    /\ op = "calculate_metrics_for_predictions"
    /\ pc = "loop"
    /\ pred_idx = Len(predicted_boxes)
    /\ LET d == metrics_dict(true_positives, Len(predicted_boxes), Len(ground_truth_boxes))
       IN  /\ pc' = IF d.raised THEN "raised" ELSE "returned"
           /\ metrics' = IF d.raised THEN metrics ELSE d.val
    /\ UNCHANGED <<op, predicted_boxes, ground_truth_boxes, iou_threshold, pred_idx,
                   true_positives, matched_gt_boxes, matches, used_gt_boxes,
                   best_iou, best_gt_idx, box_a, box_b, iou_result>>
    /\ UNCHANGED <<geometry_vars, calls, filter_vars, command_vars>>

\* find_box_matches, lines 137-152: one iteration of the outer loop
find_box_matches_loop ==
    /\ op = "find_box_matches"
    /\ pc = "loop"
    /\ pred_idx < Len(predicted_boxes)
    /\ LET r == fbm_scan(predicted_boxes[pred_idx + 1], ground_truth_boxes,
                         used_gt_boxes, 0, fbm_initial_best(iou_threshold), NoneIdx)
       IN  IF r.raised
           THEN /\ pc' = "raised"
                /\ UNCHANGED <<pred_idx, matches, used_gt_boxes, best_iou, best_gt_idx>>
           ELSE /\ pc' = pc
                /\ pred_idx' = pred_idx + 1
                /\ best_iou' = r.best_iou
                /\ best_gt_idx' = r.best_gt_idx
                /\ IF r.best_gt_idx # NoneIdx
                   THEN /\ matches' = fbm_record(matches, pred_idx, r.best_gt_idx)
                        /\ used_gt_boxes' = used_gt_boxes \cup {r.best_gt_idx}
                   ELSE UNCHANGED <<matches, used_gt_boxes>>
    /\ UNCHANGED <<op, predicted_boxes, ground_truth_boxes, iou_threshold,
                   true_positives, matched_gt_boxes, metrics, box_a, box_b, iou_result>>
    /\ UNCHANGED <<geometry_vars, calls, filter_vars, command_vars>>

\* find_box_matches, line 154
find_box_matches_return ==
    /\ op = "find_box_matches"
    /\ pc = "loop"
    /\ pred_idx = Len(predicted_boxes)
    /\ pc' = "returned"
    /\ UNCHANGED <<op, predicted_boxes, ground_truth_boxes, iou_threshold, pred_idx,
                   true_positives, matched_gt_boxes, matches, used_gt_boxes,
                   best_iou, best_gt_idx, metrics, box_a, box_b, iou_result>>
    /\ UNCHANGED <<geometry_vars, calls, filter_vars, command_vars>>

Next ==
    \/ find_true_positives_loop
    \/ find_true_positives_return
    \/ calculate_metrics_for_predictions
    \/ find_box_matches_loop
    \/ find_box_matches_return

Init == InitOver(BoxUniverse)

Spec == Init /\ [][Next]_vars

InitScenario == InitOver(ScenarioBoxes)

SpecScenario == InitScenario /\ [][Next]_vars

----------------------------------------------------------------------------
(* A call of calculate_iou on its own *)

Coords == 0..MaxCoord
Sizes == -1..MaxCoord
\* every box with small integer fields, negative sizes included, and one box far
\* from all of them
BoxGrid ==
    {Box(x, y, w, h) : x \in Coords, y \in Coords, w \in Sizes, h \in Sizes}
        \cup {Box(5, 5, 1, 1)}

InitIoU ==
    /\ op = "calculate_iou"
    /\ pc = "call"
    /\ box_a \in BoxGrid
    /\ box_b \in BoxGrid
    /\ iou_result = Value(Zero)
    /\ predicted_boxes = <<>>
    /\ ground_truth_boxes = <<>>
    /\ iou_threshold = DefaultThreshold
    /\ pred_idx = 0
    /\ true_positives = 0
    /\ matched_gt_boxes = {}
    /\ matches = NoMatches
    /\ used_gt_boxes = {}
    /\ best_iou = Zero
    /\ best_gt_idx = NoneIdx
    /\ metrics = NoMetrics
    /\ NoGeometryCall /\ NoConcurrentCalls /\ NoFilterCommand /\ NoOtherCommand

\* BoundingBox.calculate_iou, lines 55-72
calculate_iou_call ==
    /\ op = "calculate_iou"
    /\ pc = "call"
    /\ iou_result' = calculate_iou(box_a, box_b)
    /\ pc' = IF iou_result'.raised THEN "raised" ELSE "returned"
    /\ UNCHANGED <<op, predicted_boxes, ground_truth_boxes, iou_threshold, pred_idx,
                   true_positives, matched_gt_boxes, matches, used_gt_boxes,
                   best_iou, best_gt_idx, metrics, box_a, box_b>>
    /\ UNCHANGED <<geometry_vars, calls, filter_vars, command_vars>>

NextIoU == calculate_iou_call

SpecIoU == InitIoU /\ [][NextIoU]_vars

----------------------------------------------------------------------------
(* Geometry calls on numbers *)

NoMatchingCall ==
    /\ predicted_boxes = <<>> /\ ground_truth_boxes = <<>>
    /\ iou_threshold = DefaultThreshold
    /\ pred_idx = 0 /\ true_positives = 0 /\ matched_gt_boxes = {}
    /\ matches = NoMatches /\ used_gt_boxes = {}
    /\ best_iou = Zero /\ best_gt_idx = NoneIdx /\ metrics = NoMetrics

NoIoUCall == box_a = Box(0, 0, 0, 0) /\ box_b = Box(0, 0, 0, 0) /\ iou_result = Value(Zero)

Arithmetics == {"exact", "float"}

\* the fractions n/d of the unit interval with a small denominator, and their
\* negatives
Fractions == UNION {{Reduce(<<n, d>>) : n \in 0..d} : d \in 1..MaxDen}
SignedFractions == Fractions \cup {<<-r[1], r[2]>> : r \in Fractions}

\* calculate_iou of a box with itself; the fields are the numbers the literals
\* x, y, w, h denote in the arithmetic
InitSelfIoU ==
    /\ op = "calculate_iou"
    /\ pc = "call"
    /\ arithmetic \in Arithmetics
    /\ \E x \in Fractions, y \in Fractions, w \in SignedFractions, h \in SignedFractions :
          box_a = Box(Fl(x), Fl(y), Fl(w), Fl(h))
    /\ box_b = box_a
    /\ iou_result = Value(Zero)
    /\ args = NoArgs /\ built = NoBox /\ pixel_box = NoPixels
    /\ NoMatchingCall /\ NoConcurrentCalls /\ NoFilterCommand /\ NoOtherCommand

\* BoundingBox.calculate_iou, lines 55-72, on numbers
calculate_iou_float_call ==
    /\ op = "calculate_iou"
    /\ pc = "call"
    /\ iou_result' = calculate_iou_float(box_a, box_b)
    /\ pc' = IF iou_result'.raised THEN "raised" ELSE "returned"
    /\ UNCHANGED <<op, predicted_boxes, ground_truth_boxes, iou_threshold, pred_idx,
                   true_positives, matched_gt_boxes, matches, used_gt_boxes,
                   best_iou, best_gt_idx, metrics, box_a, box_b>>
    /\ UNCHANGED <<geometry_vars, calls, filter_vars, command_vars>>

NextSelfIoU == calculate_iou_float_call

SpecSelfIoU == InitSelfIoU /\ [][NextSelfIoU]_vars

Pixels == 0..MaxPixels

\* along one axis: the near and the far edge of a pixel box and the image
\* dimension; the box lies within the image unless the dimension is 0
AxisArgs ==
    {a \in Pixels \X Pixels \X Pixels : a[1] <= a[2] /\ (a[3] = 0 \/ a[2] <= a[3])}

\* from_absolute_coordinates on integer pixel arguments, then
\* to_absolute_coordinates of the box with the same image dimensions
InitRoundTrip ==
    /\ op = "from_absolute_coordinates"
    /\ pc = "call"
    /\ arithmetic = "float"
    /\ \E h \in AxisArgs, v \in AxisArgs :
          args = [x_min |-> h[1], x_max |-> h[2], image_width |-> h[3],
                  y_min |-> v[1], y_max |-> v[2], image_height |-> v[3]]
    /\ built = NoBox
    /\ pixel_box = NoPixels
    /\ NoMatchingCall /\ NoIoUCall /\ NoConcurrentCalls /\ NoFilterCommand /\ NoOtherCommand

\* BoundingBox.from_absolute_coordinates, lines 26-31
from_absolute_coordinates_call ==
    /\ op = "from_absolute_coordinates"
    /\ pc = "call"
    /\ built' = from_absolute_coordinates(Num(args.x_min), Num(args.y_min),
                                          Num(args.x_max), Num(args.y_max),
                                          Num(args.image_width), Num(args.image_height))
    /\ pc' = IF built'.raised THEN "raised" ELSE "built"
    /\ UNCHANGED <<op, predicted_boxes, ground_truth_boxes, iou_threshold, pred_idx,
                   true_positives, matched_gt_boxes, matches, used_gt_boxes,
                   best_iou, best_gt_idx, metrics, box_a, box_b, iou_result>>
    /\ UNCHANGED <<arithmetic, args, pixel_box, calls, filter_vars, command_vars>>

\* BoundingBox.to_absolute_coordinates, lines 78-83, on the box just built
to_absolute_coordinates_call ==
    /\ op = "from_absolute_coordinates"
    /\ pc = "built"
    /\ op' = "to_absolute_coordinates"
    /\ pixel_box' = to_absolute_coordinates(built.box, Num(args.image_width),
                                            Num(args.image_height))
    /\ pc' = "returned"
    /\ UNCHANGED <<predicted_boxes, ground_truth_boxes, iou_threshold, pred_idx,
                   true_positives, matched_gt_boxes, matches, used_gt_boxes,
                   best_iou, best_gt_idx, metrics, box_a, box_b, iou_result>>
    /\ UNCHANGED <<arithmetic, args, built, calls, filter_vars, command_vars>>

NextRoundTrip == from_absolute_coordinates_call \/ to_absolute_coordinates_call

SpecRoundTrip == InitRoundTrip /\ [][NextRoundTrip]_vars

Pathways == {"BoundingBox", "from_centroid", "from_absolute_coordinates"}
ImageSizes == {1, MaxPixels}

\* one box description (x, y, w, h), image dimensions W, H, and the pathway
\* that constructs the box from it
InitPathways ==
    /\ op \in Pathways
    /\ pc = "call"
    /\ arithmetic \in Arithmetics
    /\ \E x \in Fractions, y \in Fractions, w \in SignedFractions, h \in SignedFractions,
          W \in ImageSizes, H \in ImageSizes :
          args = [x |-> Fl(x), y |-> Fl(y), width |-> Fl(w), height |-> Fl(h),
                  image_width |-> Num(W), image_height |-> Num(H)]
    /\ built = NoBox
    /\ pixel_box = NoPixels
    /\ NoMatchingCall /\ NoIoUCall /\ NoConcurrentCalls /\ NoFilterCommand /\ NoOtherCommand

PathwayFrame ==
    /\ UNCHANGED <<op, predicted_boxes, ground_truth_boxes, iou_threshold, pred_idx,
                   true_positives, matched_gt_boxes, matches, used_gt_boxes,
                   best_iou, best_gt_idx, metrics, box_a, box_b, iou_result>>
    /\ UNCHANGED <<arithmetic, args, pixel_box, calls, filter_vars, command_vars>>

\* BoundingBox(x, y, w, h): the dataclass constructor, lines 15-18
construct_directly ==
    /\ op = "BoundingBox"
    /\ pc = "call"
    /\ built' = Built(Box(args.x, args.y, args.width, args.height))
    /\ pc' = "built"
    /\ PathwayFrame

\* BoundingBox.from_centroid(x + w/2, y + h/2, w, h)
construct_from_centroid ==
    /\ op = "from_centroid"
    /\ pc = "call"
    /\ built' = from_centroid(NAdd(args.x, NDiv(args.width, Num(2)).val),
                              NAdd(args.y, NDiv(args.height, Num(2)).val),
                              args.width, args.height)
    /\ pc' = "built"
    /\ PathwayFrame

\* BoundingBox.from_absolute_coordinates(x*W, y*H, (x+w)*W, (y+h)*H, W, H)
construct_from_absolute ==
    /\ op = "from_absolute_coordinates"
    /\ pc = "call"
    /\ built' = from_absolute_coordinates(
                    NMul(args.x, args.image_width),
                    NMul(args.y, args.image_height),
                    NMul(NAdd(args.x, args.width), args.image_width),
                    NMul(NAdd(args.y, args.height), args.image_height),
                    args.image_width, args.image_height)
    /\ pc' = IF built'.raised THEN "raised" ELSE "built"
    /\ PathwayFrame

NextPathways == construct_directly \/ construct_from_centroid \/ construct_from_absolute

SpecPathways == InitPathways /\ [][NextPathways]_vars

----------------------------------------------------------------------------
(* Matching calls that run interleaved, each on its own collections.       *)
(* Every call has a frame of its own; a step of the model is one iteration *)
(* of the outer loop of one call, or its return.                           *)

Callers == {1, 2}

\* two boxes with IoU 1/2
ConcurrentBoxes == {Box(0, 0, 2, 2), Box(0, 0, 2, 1)}
GroundTruthChoices ==
    {<<Box(0, 0, 2, 2)>>, <<Box(0, 0, 2, 2), Box(0, 0, 2, 1)>>,
     <<Box(0, 0, 2, 1), Box(0, 0, 2, 2)>>}

\* the frame of a call at its start; matched_gt_boxes is the consumed set of
\* either function (used_gt_boxes in find_box_matches)
NewFrame(o, p, g, t) ==
    [op |-> o, pc |-> "loop", predicted_boxes |-> p, ground_truth_boxes |-> g,
     iou_threshold |-> t, pred_idx |-> 0, true_positives |-> 0,
     matched_gt_boxes |-> {}, matches |-> NoMatches, metrics |-> NoMetrics]

Frames ==
    {NewFrame(o, p, g, DefaultThreshold) :
        o \in MatchOps, p \in SeqsUpTo(ConcurrentBoxes, MaxPredicted),
        g \in GroundTruthChoices}

\* a consumed set kept in one place for all calls
owner_shared(c) == 1

\* the frame that holds the consumed set call c reads and updates: the set is
\* a local of the call (lines 65 and 135)
owner(c) == c

\* find_true_positives, lines 67-82: one iteration in frame f, s being the
\* consumed set
ftp_iteration(f, s) ==
    LET r == ftp_scan(f.predicted_boxes[f.pred_idx + 1], f.ground_truth_boxes,
                      s, 0, Zero, NoneIdx)
    IN  IF r.raised
        THEN [frame |-> [f EXCEPT !.pc = "raised"], consumed |-> s]
        ELSE IF ftp_accepts(r.best_iou, f.iou_threshold)
        THEN [frame |-> [f EXCEPT !.pred_idx = @ + 1, !.true_positives = @ + 1],
              consumed |-> s \cup {r.best_gt_idx}]
        ELSE [frame |-> [f EXCEPT !.pred_idx = @ + 1], consumed |-> s]

\* find_box_matches, lines 137-152: one iteration in frame f
fbm_iteration(f, s) ==
    LET r == fbm_scan(f.predicted_boxes[f.pred_idx + 1], f.ground_truth_boxes,
                      s, 0, fbm_initial_best(f.iou_threshold), NoneIdx)
    IN  IF r.raised
        THEN [frame |-> [f EXCEPT !.pc = "raised"], consumed |-> s]
        ELSE IF r.best_gt_idx # NoneIdx
        THEN [frame |-> [f EXCEPT !.pred_idx = @ + 1,
                                  !.matches = fbm_record(@, f.pred_idx, r.best_gt_idx)],
              consumed |-> s \cup {r.best_gt_idx}]
        ELSE [frame |-> [f EXCEPT !.pred_idx = @ + 1], consumed |-> s]

iteration(f, s) ==
    IF f.op = "find_box_matches" THEN fbm_iteration(f, s) ELSE ftp_iteration(f, s)

\* lines 84 and 154, and lines 104-117 of calculate_metrics_for_predictions
frame_return(f) ==
    IF f.op = "calculate_metrics_for_predictions"
    THEN LET d == metrics_dict(f.true_positives, Len(f.predicted_boxes),
                               Len(f.ground_truth_boxes))
         IN  [f EXCEPT !.pc = IF d.raised THEN "raised" ELSE "returned",
                       !.metrics = IF d.raised THEN @ ELSE d.val]
    ELSE [f EXCEPT !.pc = "returned"]

\* the whole call, run alone from frame f
RECURSIVE RunAlone(_)
RunAlone(f) ==
    IF f.pc # "loop" THEN f
    ELSE IF f.pred_idx < Len(f.predicted_boxes)
    THEN LET r == iteration(f, f.matched_gt_boxes)
         IN  RunAlone([r.frame EXCEPT !.matched_gt_boxes = r.consumed])
    ELSE RunAlone(frame_return(f))

InitInterleaved ==
    /\ op = "interleaved calls"
    /\ pc = "run"
    /\ calls \in [Callers -> Frames]
    /\ NoMatchingCall /\ NoIoUCall /\ NoGeometryCall /\ NoFilterCommand /\ NoOtherCommand

InterleavedFrame ==
    /\ UNCHANGED <<op, pc, predicted_boxes, ground_truth_boxes, iou_threshold, pred_idx,
                   true_positives, matched_gt_boxes, matches, used_gt_boxes,
                   best_iou, best_gt_idx, metrics, box_a, box_b, iou_result>>
    /\ UNCHANGED <<geometry_vars, filter_vars, command_vars>>

\* call c runs one iteration of its outer loop
interleaved_iteration(c) ==
    /\ calls[c].pc = "loop"
    /\ calls[c].pred_idx < Len(calls[c].predicted_boxes)
    /\ LET o == owner(c)
           r == iteration(calls[c], calls[o].matched_gt_boxes)
           stepped == [calls EXCEPT ![c] = r.frame]
       IN  calls' = [stepped EXCEPT ![o].matched_gt_boxes = r.consumed]
    /\ InterleavedFrame

\* call c returns
interleaved_return(c) ==
    /\ calls[c].pc = "loop"
    /\ calls[c].pred_idx = Len(calls[c].predicted_boxes)
    /\ calls' = [calls EXCEPT ![c] = frame_return(calls[c])]
    /\ InterleavedFrame

NextInterleaved ==
    \/ \E c \in Callers : interleaved_iteration(c)
    \/ \E c \in Callers : interleaved_return(c)

SpecInterleaved == InitInterleaved /\ [][NextInterleaved]_vars

----------------------------------------------------------------------------
(* cli.py filter_weather and utils/weather.py apply_single_filter.         *)
(*                                                                         *)
(* A DataFrame is its set of column names and the sequence of its rows,    *)
(* each row with its index label; a row is a function from column names to *)
(* values.  A timestamp is <<day, hour>>; its date is the day.  A filter    *)
(* dict is the sequence of its (column, criteria) items.                   *)

MaxRows == 2

Row(d, t, s) == [device_id |-> d, timestamp |-> t, sensor_type |-> s]
DataColumns == {"device_id", "timestamp", "sensor_type"}

\* rows after the sample data of tests/.../test_weather_filters.py
Rows ==
    {Row(255, <<6, 0>>, "temperature"), Row(280, <<6, 12>>, "temperature"),
     Row(285, <<21, 0>>, "rainfall"), Row(290, <<22, 0>>, "rainfall"),
     Row(290, <<7, 23>>, "rainfall")}

SampleData ==
    <<Row(255, <<6, 0>>, "temperature"), Row(280, <<6, 0>>, "temperature"),
      Row(285, <<21, 0>>, "rainfall"), Row(290, <<22, 0>>, "rainfall"),
      Row(290, <<7, 0>>, "rainfall")>>

\* read_csv_file: the frame of a file whose data rows are rs, labelled 0, 1, ...
Frame(rs) ==
    [columns |-> DataColumns,
     rows |-> [i \in 1..Len(rs) |-> [idx |-> i - 1, row |-> rs[i]]]]

\* criteria of one column: a scalar, or a dict with "min" and / or "max"
Scalar(v) == [kind |-> "scalar", keys |-> {}, value |-> v, min |-> v, max |-> v]
MinMax(lo, hi) == [kind |-> "dict", keys |-> {"min", "max"}, value |-> lo, min |-> lo, max |-> hi]
MinOnly(lo) == [kind |-> "dict", keys |-> {"min"}, value |-> lo, min |-> lo, max |-> lo]
MaxOnly(hi) == [kind |-> "dict", keys |-> {"max"}, value |-> hi, min |-> hi, max |-> hi]
Item(c, k) == [col |-> c, criteria |-> k]

\* pd.to_datetime(...).date(): the date of a timestamp
Date(t) == t[1]

RemovePrototype == <<Item("device_id", Scalar(255))>>
RemoveCalibration ==
    <<Item("device_id", MinMax(280, 291)),
      Item("timestamp", MinMax(<<5, 0>>, <<8, 0>>))>>
Rainfall == <<Item("sensor_type", Scalar("rainfall"))>>
UntilDaySix == <<Item("timestamp", MaxOnly(<<6, 0>>))>>
FromDevice285 == <<Item("device_id", MinOnly(285))>>
WindSpeed == <<Item("wind_speed", Scalar(1))>>
Malfunction ==
    <<Item("device_id", Scalar(290)),
      Item("timestamp", MinMax(<<20, 0>>, <<23, 0>>)),
      Item("sensor_type", Scalar("rainfall"))>>

Group(n, fs) == [name |-> n, filters |-> fs]
TagGroup(n, t, fs) == [name |-> n, tag |-> t, filters |-> fs]

RemoveGroups ==
    {Group("remove_prototype_devices", <<RemovePrototype>>),
     Group("remove_calibration_data", <<RemoveCalibration>>),
     Group("remove_rainfall", <<Rainfall>>),
     Group("remove_early", <<UntilDaySix, FromDevice285>>),
     Group("remove_windy", <<WindSpeed>>)}

TagGroups ==
    {TagGroup("optical_device_malfunction", "OpticalRainGauge_malfunction", <<Malfunction>>),
     TagGroup("wet_or_early", "wet_or_early", <<Rainfall, UntilDaySix>>),
     TagGroup("from_285", "wet_or_early", <<FromDevice285>>),
     TagGroup("windy", "windy", <<WindSpeed>>)}

\* the filter file: "remove_filters" and "tag_filters" are each optional
FilterConfigs ==
    {[k \in {} |-> <<>>]}
    \cup {[remove_filters |-> r] : r \in SeqsUpTo(RemoveGroups, 2)}
    \cup {[tag_filters |-> t] : t \in SeqsUpTo(TagGroups, 2)}
    \cup {[remove_filters |-> r, tag_filters |-> t] :
             r \in SeqsUpTo(RemoveGroups, 2), t \in SeqsUpTo(TagGroups, 2)}

\* the configuration of the test fixture
FixtureConfig ==
    [remove_filters |-> <<Group("remove_prototype_devices", <<RemovePrototype>>),
                          Group("remove_calibration_data", <<RemoveCalibration>>)>>,
     tag_filters |-> <<TagGroup("optical_device_malfunction",
                                "OpticalRainGauge_malfunction", <<Malfunction>>)>>]

\* apply_single_filter, lines 519-538: row value v of column col against the
\* criteria of that column
criterion_holds(v, col, criteria) ==
    IF criteria.kind = "dict"
    THEN /\ "min" \in criteria.keys =>
              IF col = "timestamp" THEN Date(v) >= Date(criteria.min) ELSE v >= criteria.min
         /\ "max" \in criteria.keys =>
              IF col = "timestamp" THEN Date(v) <= Date(criteria.max) ELSE v <= criteria.max
    ELSE v = criteria.value

\* an apply_single_filter that matches a row on any one of the criteria
row_matches_any(row, filter_dict) ==
    \E i \in 1..Len(filter_dict) :
        criterion_holds(row[filter_dict[i].col], filter_dict[i].col, filter_dict[i].criteria)

\* apply_single_filter, lines 513-539: valid_idx of one row, all criteria and-ed
row_matches(row, filter_dict) ==
    \A i \in 1..Len(filter_dict) :
        criterion_holds(row[filter_dict[i].col], filter_dict[i].col, filter_dict[i].criteria)

\* apply_single_filter(df, filter_dict): the index labels of the matching rows,
\* or ValueError for a column that is not in the frame
apply_single_filter(df, filter_dict) ==
    IF \E i \in 1..Len(filter_dict) : filter_dict[i].col \notin df.columns
    THEN [raised |-> TRUE, idx |-> {}]
    ELSE [raised |-> FALSE,
          idx |-> {df.rows[k].idx : k \in {j \in 1..Len(df.rows) :
                                             row_matches(df.rows[j].row, filter_dict)}}]

\* filter_dict as a dict: the keys, and the value under a key
keys_of(filter_dict) == {filter_dict[i].col : i \in 1..Len(filter_dict)}
value_of(filter_dict, key) ==
    filter_dict[CHOOSE i \in 1..Len(filter_dict) : filter_dict[i].col = key].criteria

\* filter_weather_data, lines 575-578: apply_single_filter per filter set, in
\* order; the first ValueError ends the call
RECURSIVE matching_indices_of(_, _)
matching_indices_of(df, filter_sets) ==
    IF filter_sets = <<>> THEN [raised |-> FALSE, idx |-> {}]
    ELSE LET indices == apply_single_filter(df, Head(filter_sets))
             others == matching_indices_of(df, Tail(filter_sets))
         IN  IF indices.raised \/ others.raised THEN [raised |-> TRUE, idx |-> {}]
             ELSE [raised |-> FALSE, idx |-> indices.idx \cup others.idx]

\* filter_weather_data(df, filter_dict): without a 'filters' key the dict is one
\* filter; with it, the union of the indices of the filter sets
filter_weather_data(df, filter_dict) ==
    IF "filters" \notin keys_of(filter_dict)
    THEN apply_single_filter(df, filter_dict)
    ELSE matching_indices_of(df, value_of(filter_dict, "filters"))

\* the rows of s at the positions of keep, in order
RECURSIVE RowsAt(_, _, _)
RowsAt(s, keep, i) ==
    IF i > Len(s) THEN <<>>
    ELSE (IF i \in keep THEN <<s[i]>> ELSE <<>>) \o RowsAt(s, keep, i + 1)

\* a drop that takes the labels for positions
drop_positions(df, labels) ==
    [df EXCEPT !.rows = RowsAt(@, {i \in 1..Len(@) : (i - 1) \notin labels}, 1)]

\* DataFrame.drop(labels): the frame without the rows that carry the labels
drop(df, labels) ==
    [df EXCEPT !.rows = RowsAt(@, {i \in 1..Len(@) : @[i].idx \notin labels}, 1)]

\* the filter dicts of a list of groups, in the order the loops visit them
RECURSIVE conditions_of(_)
conditions_of(groups) ==
    IF groups = <<>> THEN <<>> ELSE Head(groups).filters \o conditions_of(Tail(groups))

\* filter_weather, lines 390-393: one drop per filter condition, each computed
\* on the frame the previous drops left
RECURSIVE apply_removals(_, _)
apply_removals(df, conditions) ==
    IF conditions = <<>> THEN [raised |-> FALSE, df |-> df]
    ELSE LET matching_idx == apply_single_filter(df, Head(conditions))
         IN  IF matching_idx.raised THEN [raised |-> TRUE, df |-> df]
             ELSE apply_removals(drop(df, matching_idx.idx), Tail(conditions))

\* a tag column that is written afresh for every group
with_column_reset(df, tag_column) ==
    [columns |-> df.columns \cup {tag_column},
     rows |-> [i \in 1..Len(df.rows) |->
                 [df.rows[i] EXCEPT !.row = [c \in DOMAIN @ \cup {tag_column} |->
                                               IF c = tag_column THEN FALSE ELSE @[c]]]]]

\* filter_weather, lines 401-402: modified_df[tag_column] = False, for a column
\* the frame does not have yet
with_column(df, tag_column) ==
    IF tag_column \in df.columns THEN df
    ELSE [columns |-> df.columns \cup {tag_column},
          rows |-> [i \in 1..Len(df.rows) |->
                      [df.rows[i] EXCEPT !.row = [c \in DOMAIN @ \cup {tag_column} |->
                                                    IF c = tag_column THEN FALSE ELSE @[c]]]]]

\* filter_weather, line 406: modified_df.loc[matching_idx, tag_column] = True
set_true(df, labels, tag_column) ==
    [df EXCEPT !.rows = [i \in 1..Len(@) |->
                           IF @[i].idx \in labels
                           THEN [@[i] EXCEPT !.row[tag_column] = TRUE]
                           ELSE @[i]]]

\* filter_weather, lines 404-406: the filter conditions of one tag group
RECURSIVE tag_conditions(_, _, _)
tag_conditions(df, tag_column, conditions) ==
    IF conditions = <<>> THEN [raised |-> FALSE, df |-> df]
    ELSE LET matching_idx == apply_single_filter(df, Head(conditions))
         IN  IF matching_idx.raised THEN [raised |-> TRUE, df |-> df]
             ELSE tag_conditions(set_true(df, matching_idx.idx, tag_column),
                                 tag_column, Tail(conditions))

\* filter_weather, lines 398-406: the tag groups in order
RECURSIVE apply_tags(_, _)
apply_tags(df, groups) ==
    IF groups = <<>> THEN [raised |-> FALSE, df |-> df]
    ELSE LET tagged == tag_conditions(with_column(df, Head(groups).tag),
                                      Head(groups).tag, Head(groups).filters)
         IN  IF tagged.raised THEN tagged ELSE apply_tags(tagged.df, Tail(groups))

\* save_csv_file(df, path): to_csv with index = False writes the columns and
\* the rows without their labels
csv_of(df) ==
    [columns |-> df.columns, rows |-> [i \in 1..Len(df.rows) |-> df.rows[i].row]]

\* an entry of the log: a logger.error call, or a print
LoggedError(by) == [level |-> "error", by |-> by]
Printed(by) == [level |-> "print", by |-> by]

\* the file at opts.filter_file: JSON text of a configuration, or text that is
\* not JSON; the file at opts.file: a CSV file with rows, or no file
JsonFile(config) == [valid |-> TRUE, json |-> config]
InvalidJson == [valid |-> FALSE, json |-> <<>>]
CsvFile(rs) == [exists |-> TRUE, rows |-> rs]
MissingFile == [exists |-> FALSE, rows |-> <<>>]

\* read_json_file(file_path): the parsed dict; a JSONDecodeError (or any other
\* exception) is caught inside, printed, and {} is returned
read_json_file(file) ==
    IF file.valid THEN [raised |-> FALSE, value |-> file.json, printed |-> <<>>]
    ELSE [raised |-> FALSE, value |-> [k \in {} |-> <<>>],
          printed |-> <<Printed("read_json_file")>>]

\* read_csv_file(file_path): the frame, or None after printing the error
read_csv_file(file) ==
    IF file.exists THEN [df |-> Frame(file.rows), printed |-> <<>>]
    ELSE [df |-> None, printed |-> <<Printed("read_csv_file"), Printed("read_csv_file")>>]

InitFilter ==
    /\ op = "filter_weather"
    /\ pc = "start"
    /\ filter_file \in {JsonFile(c) : c \in FilterConfigs} \cup {InvalidJson}
    /\ input_file \in {CsvFile(rs) : rs \in SeqsUpTo(Rows, MaxRows) \cup {SampleData}}
                      \cup {MissingFile}
    /\ log = <<>>
    /\ NoFilterCommand
    /\ NoMatchingCall /\ NoIoUCall /\ NoGeometryCall /\ NoConcurrentCalls
    /\ NoMergeCommand /\ NoFilterDataCall /\ NoBoxesCall /\ NoFlattenCommand

FilterFrame ==
    /\ UNCHANGED <<op, predicted_boxes, ground_truth_boxes, iou_threshold, pred_idx,
                   true_positives, matched_gt_boxes, matches, used_gt_boxes,
                   best_iou, best_gt_idx, metrics, box_a, box_b, iou_result>>
    /\ UNCHANGED <<geometry_vars, calls, merge_vars, filter_file, input_file,
                   matching_indices, boxes_vars, flatten_vars>>

\* filter_weather, lines 376-380 and 385-386: the filter file and the input file
\* are read; an exception of read_json_file is logged and the command returns;
\* data_df.copy() on None raises, which lines 420-422 catch and log
filter_weather_read ==
    /\ op = "filter_weather"
    /\ pc = "start"
    /\ LET config == read_json_file(filter_file)
           data == read_csv_file(input_file)
       IN  IF config.raised
           THEN /\ log' = log \o <<LoggedError("filter_weather")>>
                /\ pc' = "returned"
                /\ UNCHANGED <<filter_config, data_df>>
           ELSE /\ filter_config' = config.value
                /\ data_df' = data.df
                /\ log' = log \o config.printed \o data.printed
                           \o (IF data.df = None THEN <<LoggedError("filter_weather")>>
                               ELSE <<>>)
                /\ pc' = IF data.df = None THEN "error logged" ELSE "read"
    /\ UNCHANGED <<modified_df, output_file>>
    /\ FilterFrame

\* filter_weather, lines 386-393: the copy and the removal filters; an exception
\* is caught and logged at lines 420-422 and nothing is written for the file
filter_weather_remove ==
    /\ op = "filter_weather"
    /\ pc = "read"
    /\ LET removed ==
             IF "remove_filters" \in DOMAIN filter_config
             THEN apply_removals(data_df, conditions_of(filter_config.remove_filters))
             ELSE [raised |-> FALSE, df |-> data_df]
       IN  /\ modified_df' = removed.df
           /\ pc' = IF removed.raised THEN "error logged" ELSE "removed"
           /\ log' = IF removed.raised THEN log \o <<LoggedError("filter_weather")>> ELSE log
    /\ UNCHANGED <<output_file, data_df, filter_config>>
    /\ FilterFrame

\* filter_weather, lines 397-406: the tagging filters
filter_weather_tag ==
    /\ op = "filter_weather"
    /\ pc = "removed"
    /\ LET tagged ==
             IF "tag_filters" \in DOMAIN filter_config
             THEN apply_tags(modified_df, filter_config.tag_filters)
             ELSE [raised |-> FALSE, df |-> modified_df]
       IN  /\ modified_df' = tagged.df
           /\ pc' = IF tagged.raised THEN "error logged" ELSE "tagged"
           /\ log' = IF tagged.raised THEN log \o <<LoggedError("filter_weather")>> ELSE log
    /\ UNCHANGED <<output_file, data_df, filter_config>>
    /\ FilterFrame

\* filter_weather, lines 410-417: save_csv_file(modified_df, outputfile)
filter_weather_save ==
    /\ op = "filter_weather"
    /\ pc = "tagged"
    /\ output_file' = csv_of(modified_df)
    /\ pc' = "saved"
    /\ UNCHANGED <<modified_df, data_df, filter_config, log>>
    /\ FilterFrame

NextFilter ==
    filter_weather_read \/ filter_weather_remove \/ filter_weather_tag \/ filter_weather_save

SpecFilter == InitFilter /\ [][NextFilter]_vars

----------------------------------------------------------------------------
(* cli.py, merge_command: the merge of device information into weather     *)
(* readings.  The two files of the model share the merge column only, and  *)
(* opts.timezone is off.                                                   *)

WeatherColumns == {"device_id", "timestamp", "temperature"}
DeviceColumns == {"device_id", "location"}

WeatherRows ==
    {[device_id |-> d, timestamp |-> t, temperature |-> 20] :
        d \in {1, 2, 3}, t \in {"2024-01-01", "2024-01-02"}}
DeviceRows ==
    {[device_id |-> d, location |-> l] : d \in {1, 2}, l \in {"Sydney", "Perth"}}

\* a frame with the given columns whose rows are rs, labelled 0, 1, ...
FrameOf(cols, rs) ==
    [columns |-> cols, rows |-> [i \in 1..Len(rs) |-> [idx |-> i - 1, row |-> rs[i]]]]

\* the value pandas gives a cell that no row supplies
NaN == "NaN"

\* one merged row: the left row with the columns of the right row
joined(left_row, right_row, cols) ==
    [c \in cols |-> IF c \in DOMAIN left_row THEN left_row[c]
                    ELSE IF c \in DOMAIN right_row THEN right_row[c] ELSE NaN]

\* the rows the right frame holds for a key, in the right frame's order
RECURSIVE right_matches(_, _, _, _)
right_matches(right_rows, on, key, j) ==
    IF j > Len(right_rows) THEN <<>>
    ELSE (IF right_rows[j].row[on] = key THEN <<right_rows[j].row>> ELSE <<>>)
         \o right_matches(right_rows, on, key, j + 1)

\* pd.merge(..., how='left'): every left row in order, once per matching right
\* row, or once with NaN in the right columns when no right row matches
RECURSIVE left_merge_rows(_, _, _, _, _)
left_merge_rows(left_rows, right_rows, on, cols, i) ==
    IF i > Len(left_rows) THEN <<>>
    ELSE LET l == left_rows[i].row
             found == right_matches(right_rows, on, l[on], 1)
         IN  (IF found = <<>> THEN <<joined(l, [c \in {} |-> NaN], cols)>>
              ELSE [k \in 1..Len(found) |-> joined(l, found[k], cols)])
             \o left_merge_rows(left_rows, right_rows, on, cols, i + 1)

\* merge_weather_data(data_df, devices_df, merge_column): AttributeError for a
\* frame that is None, ValueError for a merge column missing from either frame
merge_weather_data(df, devices_df, on) ==
    IF df = None \/ devices_df = None THEN [raised |-> TRUE, df |-> <<>>]
    ELSE IF on \notin df.columns \/ on \notin devices_df.columns
    THEN [raised |-> TRUE, df |-> <<>>]
    ELSE [raised |-> FALSE,
          df |-> FrameOf(df.columns \cup devices_df.columns,
                         left_merge_rows(df.rows, devices_df.rows, on,
                                         df.columns \cup devices_df.columns, 1))]

MergeColumns == {"device_id", "location"}

InitMerge ==
    /\ op = "merge_command"
    /\ pc = "read"
    /\ \E rs \in SeqsUpTo(DeviceRows, MaxRows) :
           device_df \in {FrameOf(DeviceColumns, rs), None}
    /\ \E rs \in SeqsUpTo(WeatherRows, MaxRows) :
           weather_df \in {FrameOf(WeatherColumns, rs), None}
    /\ merge_column \in MergeColumns
    /\ merged_df = <<>>
    /\ NoMatchingCall /\ NoIoUCall /\ NoGeometryCall /\ NoConcurrentCalls
    /\ NoFilterCommand /\ NoFiles /\ NoFilterDataCall /\ NoBoxesCall
    /\ NoFlattenCommand

MergeFrame ==
    /\ UNCHANGED <<op, predicted_boxes, ground_truth_boxes, iou_threshold, pred_idx,
                   true_positives, matched_gt_boxes, matches, used_gt_boxes,
                   best_iou, best_gt_idx, metrics, box_a, box_b, iou_result>>
    /\ UNCHANGED <<geometry_vars, calls, data_df, filter_config, modified_df>>
    /\ UNCHANGED <<weather_df, device_df, merge_column, file_vars, matching_indices,
                   boxes_vars, flatten_vars>>

\* merge_command, lines 290-298: the merge; an exception is caught and logged at
\* lines 316-318 and nothing is written for the file
merge_command_merge ==
    /\ op = "merge_command"
    /\ pc = "read"
    /\ LET merged == merge_weather_data(weather_df, device_df, merge_column)
       IN  /\ merged_df' = merged.df
           /\ pc' = IF merged.raised THEN "error logged" ELSE "merged"
    /\ UNCHANGED output_file
    /\ MergeFrame

\* merge_command, lines 302-314: save_csv_file(merged_df, output_file)
merge_command_save ==
    /\ op = "merge_command"
    /\ pc = "merged"
    /\ output_file' = csv_of(merged_df)
    /\ pc' = "saved"
    /\ UNCHANGED merged_df
    /\ MergeFrame

NextMerge == merge_command_merge \/ merge_command_save

SpecMerge == InitMerge /\ [][NextMerge]_vars

----------------------------------------------------------------------------
(* utils/weather.py: apply_single_filter and filter_weather_data called on  *)
(* a frame and a filter dict                                               *)

NoCriteria == <<>>

\* one set of filter criteria
FilterSets ==
    {NoCriteria, RemovePrototype, RemoveCalibration, Rainfall, UntilDaySix,
     FromDevice285, WindSpeed, Malfunction}

\* a dict with a list of filter sets under the 'filters' key
Filters(filter_sets) == <<Item("filters", filter_sets)>>

MaxFilterSets == 2

FilterDicts == {Filters(fs) : fs \in SeqsUpTo(FilterSets, MaxFilterSets)}

InitFilterData ==
    /\ pc = "call"
    /\ \E rs \in SeqsUpTo(Rows, MaxRows) \cup {SampleData} : data_df = Frame(rs)
    /\ \/ op = "apply_single_filter" /\ filter_config \in FilterSets
       \/ op = "filter_weather_data" /\ filter_config \in FilterSets \cup FilterDicts
    /\ matching_indices = <<>>
    /\ modified_df = <<>> /\ output_file = NoFile
    /\ NoMatchingCall /\ NoIoUCall /\ NoGeometryCall /\ NoConcurrentCalls
    /\ NoMergeCommand /\ NoFiles /\ NoBoxesCall /\ NoFlattenCommand

FilterDataFrame ==
    /\ UNCHANGED <<op, predicted_boxes, ground_truth_boxes, iou_threshold, pred_idx,
                   true_positives, matched_gt_boxes, matches, used_gt_boxes,
                   best_iou, best_gt_idx, metrics, box_a, box_b, iou_result>>
    /\ UNCHANGED <<geometry_vars, calls, filter_vars, merge_vars, file_vars, boxes_vars,
                   flatten_vars>>

\* apply_single_filter(df, filter_dict)
apply_single_filter_call ==
    /\ op = "apply_single_filter"
    /\ pc = "call"
    /\ matching_indices' = apply_single_filter(data_df, filter_config)
    /\ pc' = IF matching_indices'.raised THEN "raised" ELSE "returned"
    /\ FilterDataFrame

\* filter_weather_data(df, filter_dict)
filter_weather_data_call ==
    /\ op = "filter_weather_data"
    /\ pc = "call"
    /\ matching_indices' = filter_weather_data(data_df, filter_config)
    /\ pc' = IF matching_indices'.raised THEN "raised" ELSE "returned"
    /\ FilterDataFrame

NextFilterData == apply_single_filter_call \/ filter_weather_data_call

SpecFilterData == InitFilterData /\ [][NextFilterData]_vars

----------------------------------------------------------------------------
(* utils/bounding_box.py, df_to_bounding_boxes: repeated calls that pass    *)
(* the same columns list.  A list is the sequence of its items; the list   *)
(* the caller holds is the variable columns, and the local cols is that    *)
(* same list whenever columns is given and not empty.  The image           *)
(* dimensions in the frames of the model are not zero.                     *)

MaxCalls == 3

Methods == {"direct", "centroid", "absolute"}

\* file_name = None
NoFileName == "<None>"

default_columns(m) ==
    CASE m = "direct" -> <<"x", "y", "width", "height">>
      [] m = "centroid" -> <<"x_center_normalised", "y_center_normalised",
                             "width_normalised", "height_normalised">>
      [] m = "absolute" -> <<"x_min", "y_min", "x_max", "y_max",
                             "image_width", "image_height">>

expected_counts(m) == IF m = "absolute" THEN 6 ELSE 4

\* the frames: every coordinate column is named as the defaults of 'direct'
BoxColumns == {"x", "y", "width", "height", "image_width", "image_height", "image_name"}
BoxRow(x, w, n) ==
    [x |-> Num(x), y |-> Num(0), width |-> Num(w), height |-> Num(2),
     image_width |-> Num(4), image_height |-> Num(2), image_name |-> n]
BoxRows == {BoxRow(x, w, n) : x \in {0, 1}, w \in {1, 2}, n \in {"a.jpg", "b.jpg"}}

\* the lists a caller passes: None (or an empty list), the four or six coordinate
\* columns, or a list of five
ColumnLists ==
    {<<>>, <<"x", "y", "width", "height">>,
     <<"x", "y", "width", "height", "image_width", "image_height">>,
     <<"x", "y", "width", "height", "image_name">>}

FileNames == {NoFileName, "image_name", "file"}

\* a BoundingBox with its name
NamedBox(b, n) == [x |-> b.x, y |-> b.y, width |-> b.width, height |-> b.height, name |-> n]

\* lines 46-78: the box of one row of df[cols]
box_of_row(row, m, cols) ==
    LET v(i) == row[cols[i]]
        name == IF Len(cols) = expected_counts(m) + 1 THEN v(Len(cols)) ELSE NoFileName
        made == CASE m = "direct" -> Built(Box(v(1), v(2), v(3), v(4)))
                  [] m = "centroid" -> from_centroid(v(1), v(2), v(3), v(4))
                  [] m = "absolute" ->
                       from_absolute_coordinates(v(1), v(2), v(3), v(4), v(5), v(6))
    IN  NamedBox(made.box, name)

\* df_to_bounding_boxes(df, method, columns, file_name): the outcome, and the
\* caller's list as the call leaves it.  cols = columns or default_columns[method]
\* (line 36) is the caller's own list when that is not empty, and line 45 appends
\* to it.
df_to_bounding_boxes(frame, m, cols_given, name) ==
    LET aliased == cols_given # <<>>
        cols == IF aliased THEN cols_given ELSE default_columns(m)
        with_name == IF name # NoFileName THEN Append(cols, name) ELSE cols
        left == IF aliased THEN with_name ELSE cols_given
    IN  IF Len(cols) # expected_counts(m)
        THEN [raised |-> TRUE, boxes |-> <<>>, columns |-> cols_given]
        ELSE IF \E i \in 1..Len(with_name) : with_name[i] \notin frame.columns
        THEN [raised |-> TRUE, boxes |-> <<>>, columns |-> left]
        ELSE [raised |-> FALSE,
              boxes |-> [i \in 1..Len(frame.rows) |->
                           box_of_row(frame.rows[i].row, m, with_name)],
              columns |-> left]

InitBoxes ==
    /\ op = "df_to_bounding_boxes"
    /\ pc = "caller"
    /\ \E rs \in SeqsUpTo(BoxRows, 1) : boxes_df = FrameOf(BoxColumns, rs)
    /\ method \in Methods
    /\ columns \in ColumnLists
    /\ file_name \in FileNames
    /\ results = <<>>
    /\ NoMatchingCall /\ NoIoUCall /\ NoGeometryCall /\ NoConcurrentCalls
    /\ NoFilterCommand /\ NoMergeCommand /\ NoFiles /\ NoFilterDataCall
    /\ NoFlattenCommand

\* one more call with the same arguments; the caller goes on after a ValueError
\* or KeyError
df_to_bounding_boxes_call ==
    /\ op = "df_to_bounding_boxes"
    /\ Len(results) < MaxCalls
    /\ LET r == df_to_bounding_boxes(boxes_df, method, columns, file_name)
       IN  /\ results' = Append(results, [raised |-> r.raised, boxes |-> r.boxes])
           /\ columns' = r.columns
    /\ UNCHANGED <<op, pc, predicted_boxes, ground_truth_boxes, iou_threshold, pred_idx,
                   true_positives, matched_gt_boxes, matches, used_gt_boxes,
                   best_iou, best_gt_idx, metrics, box_a, box_b, iou_result>>
    /\ UNCHANGED <<geometry_vars, calls, filter_vars, merge_vars, file_vars,
                   matching_indices, boxes_df, method, file_name, flatten_vars>>

NextBoxes == df_to_bounding_boxes_call

SpecBoxes == InitBoxes /\ [][NextBoxes]_vars

----------------------------------------------------------------------------
(* The flatten command, one output per input file (opts.combine not set).  *)
(* A file is its name and its lines of text cells; the files of the model  *)
(* are non-empty, so every read returns a frame.                           *)

MaxFiles == 3

RequiredColumns == {"weather_reading_id", "extra_information"}
HeaderLine == <<"weather_reading_id", "extra_information">>
NumberCells == {"1", "2", "3"}

WeatherFile(name, lines) == [name |-> name, lines |-> lines]

\* two files with a header row and two without
WeatherFiles ==
    { WeatherFile("h1.csv", <<HeaderLine, <<"1", "{a}">>, <<"2", "{b}">>>>),
      WeatherFile("h2.csv", <<HeaderLine, <<"3", "{c}">>>>),
      WeatherFile("n1.csv", <<<<"1", "{a}">>, <<"2", "{b}">>>>),
      WeatherFile("n2.csv", <<<<"3", "{c}">>, <<"1", "{a}">>>>) }

\* header='infer', the value of the header argument that is not None
infer == [none |-> FALSE]

\* the dtype pandas infers for a column of cells: int64 when every cell parses
\* as an integer, object otherwise and for a column without cells
dtype_of(cells) ==
    IF cells # {} /\ cells \subseteq NumberCells THEN "int64" ELSE "object"

dtypes(lines, width) ==
    [c \in 1..width |-> dtype_of({lines[k][c] : k \in 1..Len(lines)})]

\* nrows of pd.read_csv
first_rows(lines, nrows) ==
    SubSeq(lines, 1, IF Len(lines) < nrows THEN Len(lines) ELSE nrows)

\* identify_header(file_path, n=5, th=0.9): the first n rows read with and
\* without a header row; 'infer' when fewer than th of the columns keep their
\* dtype, None otherwise; an empty file raises and gives 'infer'
identify_header(file_path) ==
    IF file_path.lines = <<>> THEN infer
    ELSE LET width == Len(file_path.lines[1])
             df1 == dtypes(first_rows(Tail(file_path.lines), 5), width)
             df2 == dtypes(first_rows(file_path.lines, 5), width)
             same == Cardinality({c \in 1..width : df1[c] = df2[c]})
         IN  IF same * 10 < 9 * width THEN infer ELSE None

\* the column labels of a frame read without a header and without names
RangeIndex(width) == [c \in 1..width |-> ToString(c - 1)]

\* read_csv_file(file, header=..., names=...): with header='infer' the first
\* line gives the column names and is no row; with header=None every line is a
\* row and the names are those given, or 0, 1, ...
read_csv_file_header(file_path, header, names) ==
    IF header = infer
    THEN [columns |-> file_path.lines[1], rows |-> Tail(file_path.lines)]
    ELSE [columns |-> IF names = None THEN RangeIndex(Len(file_path.lines[1]))
                      ELSE names,
          rows |-> file_path.lines]

\* flatten_weather_data: validate_input_df raises KeyError when a required
\* column is missing, which is logged and None is returned; otherwise the
\* result is the flattening of the frame that was read
flatten_weather_data(weather) ==
    IF RequiredColumns \subseteq {weather.columns[c] : c \in DOMAIN weather.columns}
    THEN [flattened |-> weather]
    ELSE None

\* files[0], files[header_location] = files[header_location], files[0]
swap_first(fs, header_location) ==
    [k \in DOMAIN fs |-> IF k = 1 THEN fs[header_location]
                         ELSE IF k = header_location THEN fs[1]
                         ELSE fs[k]]

InitFlatten ==
    /\ op = "flatten_weather"
    /\ pc = "start"
    /\ \E k \in 1..MaxFiles : \E fs \in [1..k -> WeatherFiles] :
           /\ \A a, b \in 1..k : fs[a] = fs[b] => a = b
           /\ files = fs
    /\ header_locations = <<>>
    /\ reads = <<>>
    /\ written = <<>>
    /\ log = <<>>
    /\ filter_file = <<>> /\ input_file = <<>>
    /\ NoMatchingCall /\ NoIoUCall /\ NoGeometryCall /\ NoConcurrentCalls
    /\ NoFilterCommand /\ NoMergeCommand /\ NoFilterDataCall /\ NoBoxesCall

FlattenFrame ==
    /\ UNCHANGED <<op, predicted_boxes, ground_truth_boxes, iou_threshold, pred_idx,
                   true_positives, matched_gt_boxes, matches, used_gt_boxes,
                   best_iou, best_gt_idx, metrics, box_a, box_b, iou_result>>
    /\ UNCHANGED <<geometry_vars, calls, filter_vars, merge_vars, filter_file,
                   input_file, matching_indices, boxes_df, method, file_name,
                   results>>

\* lines 122-141: identify_header of every file in turn; an error and return
\* when no file has a header; when some files lack one, the last file with a
\* header changes places with the first file of the list
flatten_weather_detect ==
    /\ op = "flatten_weather"
    /\ pc = "start"
    /\ LET detected == [k \in DOMAIN files |-> identify_header(files[k])]
           missing == {k \in DOMAIN files : detected[k] = None}
           with_header == DOMAIN files \ missing
           header_location ==
               CHOOSE k \in with_header : \A j \in with_header : j <= k
       IN  /\ header_locations' = detected
           /\ IF missing = DOMAIN files
              THEN /\ log' = Append(log, LoggedError("flatten_weather"))
                   /\ pc' = "returned"
                   /\ files' = files
              ELSE /\ log' = log
                   /\ pc' = "headers detected"
                   /\ files' = IF missing # {}
                               THEN swap_first(files, header_location)
                               ELSE files
    /\ UNCHANGED <<reads, written, columns>>
    /\ FlattenFrame

\* lines 188-204, one turn of the loop: the file is read with the entry of
\* header_locations at its place in the list, with the names of the columns
\* read last when that entry is None and the file is not the first; the
\* flattened frame is saved, and save_csv_file of None prints and saves nothing
flatten_weather_file ==
    /\ op = "flatten_weather"
    /\ pc = "headers detected"
    /\ Len(reads) < Len(files)
    /\ LET k == Len(reads) + 1
           with_names == k # 1 /\ header_locations[k] = None
           frame == read_csv_file_header(files[k], header_locations[k],
                                         IF with_names THEN columns ELSE None)
           flat == flatten_weather_data(frame)
       IN  /\ reads' = Append(reads, [name |-> files[k].name,
                                      header |-> header_locations[k],
                                      df |-> frame])
           /\ columns' = IF with_names THEN columns ELSE frame.columns
           /\ IF flat = None
              THEN /\ log' = log \o <<LoggedError("flatten_weather_data"),
                                      Printed("save_csv_file")>>
                   /\ written' = written
              ELSE /\ log' = log
                   /\ written' = Append(written, [name |-> files[k].name, df |-> flat])
    /\ UNCHANGED <<pc, files, header_locations>>
    /\ FlattenFrame

\* line 206: every file has had its turn
flatten_weather_return ==
    /\ op = "flatten_weather"
    /\ pc = "headers detected"
    /\ Len(reads) = Len(files)
    /\ pc' = "returned"
    /\ UNCHANGED <<files, header_locations, reads, written, columns, log>>
    /\ FlattenFrame

NextFlatten ==
    \/ flatten_weather_detect
    \/ flatten_weather_file
    \/ flatten_weather_return

SpecFlatten == InitFlatten /\ [][NextFlatten]_vars

----------------------------------------------------------------------------
(* Properties *)

GtIndices == 0..(Len(ground_truth_boxes) - 1)
PredIndices == 0..(Len(predicted_boxes) - 1)

\* the IoU of predicted box i and ground-truth box g (0-based)
PairIoU(i, g) == calculate_iou(predicted_boxes[i + 1], ground_truth_boxes[g + 1])

\* predicted box i overlaps ground-truth box g (a positive IoU) with an IoU at or
\* above r / above r
Overlaps(i, g) == ~PairIoU(i, g).raised /\ RatGt(PairIoU(i, g).val, Zero)
OverlapsAtLeast(i, g, r) == Overlaps(i, g) /\ RatGe(PairIoU(i, g).val, r)
OverlapsAbove(i, g, r) == Overlaps(i, g) /\ RatGt(PairIoU(i, g).val, r)

ThresholdInUnitInterval == RatGt(iou_threshold, Zero) /\ RatLe(iou_threshold, <<1, 1>>)

FtpReturned == op = "find_true_positives" /\ pc = "returned"
FbmReturned == op = "find_box_matches" /\ pc = "returned"
MetricsReturned == op = "calculate_metrics_for_predictions" /\ pc = "returned"

\* C1: for a threshold in (0, 1], the result (n, S) of find_true_positives has
\* S within the ground-truth indices, n = |S| and n <= min(len(predicted),
\* len(ground_truth)): no ground-truth box is counted twice.
C1_GroundTruthExclusivity ==
    (FtpReturned /\ ThresholdInUnitInterval) =>
        /\ matched_gt_boxes \subseteq GtIndices
        /\ true_positives = Cardinality(matched_gt_boxes)
        /\ true_positives <= Min2(Len(predicted_boxes), Len(ground_truth_boxes))

\* two predicted boxes reach the threshold on the only ground-truth box and one
\* true positive is returned
C1_Witness ==
    /\ FtpReturned /\ ThresholdInUnitInterval
    /\ Len(predicted_boxes) = 2 /\ Len(ground_truth_boxes) = 1
    /\ OverlapsAtLeast(0, 0, iou_threshold) /\ OverlapsAtLeast(1, 0, iou_threshold)
    /\ true_positives = 1 /\ matched_gt_boxes = {0}

\* C2: for any threshold the map of find_box_matches is one-to-one: keys are
\* indices of predicted_boxes, values indices of ground_truth_boxes, and no value
\* occurs under two keys.
C2_OneToOneMap ==
    FbmReturned =>
        /\ DOMAIN matches \subseteq PredIndices
        /\ \A k \in DOMAIN matches : matches[k] \in GtIndices
        /\ \A k1, k2 \in DOMAIN matches : matches[k1] = matches[k2] => k1 = k2

\* two predicted boxes overlap the only ground-truth box above the threshold and
\* the map holds one pair
C2_Witness ==
    /\ FbmReturned
    /\ Len(predicted_boxes) = 2 /\ Len(ground_truth_boxes) = 1
    /\ OverlapsAbove(0, 0, iou_threshold) /\ OverlapsAbove(1, 0, iou_threshold)
    /\ DOMAIN matches = {0} /\ matches[0] = 0

\* C3: calculate_metrics_for_predictions returns, for any threshold,
\* false_positives = predicted_count - true_positives >= 0 and
\* false_negatives = ground_truth_count - true_positives >= 0.
C3_AggregateConsistency ==
    MetricsReturned =>
        /\ metrics.false_positives = <<Len(predicted_boxes) - true_positives, 1>>
        /\ metrics.false_negatives = <<Len(ground_truth_boxes) - true_positives, 1>>
        /\ RatGe(metrics.false_positives, Zero)
        /\ RatGe(metrics.false_negatives, Zero)

\* the ground-truth boxes find_true_positives has not matched yet
Unmatched == GtIndices \ matched_gt_boxes

\* the greatest IoU between predicted box i and the ground-truth boxes in S; with
\* no box in S it is 0, the least value an IoU takes
GreatestIoU(i, S) ==
    IF S = {} THEN Zero
    ELSE LET g == CHOOSE g \in S : \A h \in S : RatGe(PairIoU(i, g).val, PairIoU(i, h).val)
         IN  PairIoU(i, g).val

ExactThresholdCase ==
    /\ predicted_boxes = <<Box(0, 0, 2, 2)>>
    /\ ground_truth_boxes = <<Box(0, 0, 2, 1)>>
    /\ iou_threshold = DefaultThreshold

\* C4: find_true_positives counts a predicted box exactly when the greatest IoU
\* between it and the ground-truth boxes not yet matched is >= iou_threshold,
\* equality included; predicted = [(0,0,2,2)], ground_truth = [(0,0,2,1)],
\* threshold 0.5 returns (1, {0}).
C4_ThresholdInclusive ==
    /\ [][(find_true_positives_loop /\ pc' = "loop") =>
            ((true_positives' = true_positives + 1)
               <=> RatGe(GreatestIoU(pred_idx, Unmatched), iou_threshold))]_vars
    /\ []((FtpReturned /\ ExactThresholdCase) =>
            (true_positives = 1 /\ matched_gt_boxes = {0}))

C4_Witness ==
    /\ FtpReturned /\ ExactThresholdCase
    /\ RatEq(best_iou, iou_threshold)
    /\ true_positives = 1

Unused == GtIndices \ used_gt_boxes

\* g is, among the boxes of S, the lowest-index one with the greatest IoU to
\* predicted box i
FirstBestIn(i, g, S) ==
    /\ g \in S
    /\ \A h \in S : RatGe(PairIoU(i, g).val, PairIoU(i, h).val)
    /\ \A h \in S : h < g => RatGt(PairIoU(i, g).val, PairIoU(i, h).val)

MatchedTo(k, g) == k \in DOMAIN matches /\ matches[k] = g

\* C6 as stated: of two predicted boxes that both overlap the same ground-truth
\* box above the threshold, the first in input order is matched to it and the
\* second is not, in find_true_positives and in find_box_matches.  Stated for
\* thresholds in (0, 1] and a predicted sequence of just the two boxes.
C6_FirstComeAsStated ==
    /\ []((op = "find_box_matches" /\ pc = "returned" /\ ThresholdInUnitInterval
             /\ Len(predicted_boxes) = 2) =>
            \A g \in GtIndices :
                (OverlapsAbove(0, g, iou_threshold) /\ OverlapsAbove(1, g, iou_threshold))
                    => (MatchedTo(0, g) /\ ~MatchedTo(1, g)))
    /\ [][(find_true_positives_loop /\ pc' = "loop" /\ ThresholdInUnitInterval
             /\ Len(predicted_boxes) = 2) =>
            \A g \in GtIndices :
                (OverlapsAbove(0, g, iou_threshold) /\ OverlapsAbove(1, g, iou_threshold))
                    => /\ pred_idx = 0 => (best_gt_idx' = g /\ g \in matched_gt_boxes')
                       /\ pred_idx = 1 => ~(g \notin matched_gt_boxes
                                              /\ g \in matched_gt_boxes')]_vars

\* C6, amended: of two predicted boxes that both overlap the same ground-truth box
\* above the threshold, at most one is matched to it.  The first in input order
\* is matched to it whenever, at its turn, that box is the lowest-index box not
\* yet consumed with the greatest IoU to it, and then the second is not matched
\* to it; the second is matched to it only if the first was matched to another
\* ground-truth box.  Once a box is consumed no later predicted box is matched to
\* it.  In find_true_positives and in find_box_matches, for every threshold.
C6_FirstCome ==
    /\ [](op = "find_box_matches" =>
            \A i, j \in PredIndices : \A g \in GtIndices :
                (i < j /\ OverlapsAbove(i, g, iou_threshold)
                       /\ OverlapsAbove(j, g, iou_threshold))
                    => /\ ~(MatchedTo(i, g) /\ MatchedTo(j, g))
                       /\ MatchedTo(j, g) => (i \in DOMAIN matches /\ matches[i] # g))
    /\ [][(find_box_matches_loop /\ pc' = "loop") =>
            \A g \in GtIndices :
                /\ (OverlapsAbove(pred_idx, g, iou_threshold)
                      /\ FirstBestIn(pred_idx, g, Unused))
                     => (pred_idx \in DOMAIN matches' /\ matches'[pred_idx] = g)
                /\ g \in used_gt_boxes
                     => (pred_idx \notin DOMAIN matches' \/ matches'[pred_idx] # g)]_vars
    /\ [][(find_true_positives_loop /\ pc' = "loop") =>
            \A g \in GtIndices :
                /\ (OverlapsAbove(pred_idx, g, iou_threshold)
                      /\ FirstBestIn(pred_idx, g, Unmatched))
                     => /\ best_gt_idx' = g
                        /\ true_positives' = true_positives + 1
                        /\ matched_gt_boxes' = matched_gt_boxes \cup {g}
                /\ g \in matched_gt_boxes => best_gt_idx' # g]_vars

\* both predicted boxes overlap ground-truth box 0 above the threshold; the first
\* is matched to it and the second to another ground-truth box
C6_Witness ==
    /\ FbmReturned /\ ThresholdInUnitInterval
    /\ Len(predicted_boxes) = 2 /\ Len(ground_truth_boxes) = 2
    /\ OverlapsAbove(0, 0, iou_threshold) /\ OverlapsAbove(1, 0, iou_threshold)
    /\ MatchedTo(0, 0) /\ MatchedTo(1, 1)

\* the formulas of calculate_metrics_for_predictions on its returned dict
MetricsFormulas ==
    LET n == Len(predicted_boxes)
        m == Len(ground_truth_boxes)
        p == metrics.precision
        r == metrics.recall
        f == metrics.f1_score
        \* p + r and p * r over the common denominator p[2] * r[2]
        sumNum  == p[1] * r[2] + r[1] * p[2]
        prodNum == p[1] * r[1]
    IN  /\ metrics.true_positives = <<true_positives, 1>>
        /\ metrics.labelled_boxes = <<m, 1>>
        /\ metrics.predicted_boxes = <<n, 1>>
        /\ IF n > 0 THEN p[1] * n = true_positives * p[2] ELSE p[1] = 0
        /\ IF m > 0 THEN r[1] * m = true_positives * r[2] ELSE r[1] = 0
        /\ IF sumNum > 0 THEN f[1] * sumNum = 2 * prodNum * f[2] ELSE f[1] = 0

\* C7: calculate_metrics_for_predictions returns precision = tp / predicted_count
\* (0 without predictions), recall = tp / ground_truth_count (0 without ground
\* truth), f1 = 2pr / (p + r) (0 when p + r = 0), tp being the count of
\* find_true_positives; and no division by zero occurs for any input.
C7_MetricsFormulas ==
    /\ op = "calculate_metrics_for_predictions" => pc # "raised"
    /\ MetricsReturned => MetricsFormulas

\* the formulas alone, on the calls that return
C7_FormulasWhenReturned == MetricsReturned => MetricsFormulas

Scenario ==
    /\ predicted_boxes = <<Box(0, 0, 1, 1), Box(5, 5, 1, 1)>>
    /\ ground_truth_boxes = <<Box(0, 0, 1, 1), Box(10, 10, 1, 1)>>
    /\ iou_threshold = DefaultThreshold

\* C8: predicted = [(0,0,1,1),(5,5,1,1)], ground truth = [(0,0,1,1),(10,10,1,1)],
\* threshold 0.5: calculate_metrics_for_predictions returns true_positives = 1,
\* precision = recall = f1_score = 0.5, false_positives = false_negatives = 1.
C8_EndToEnd ==
    (op = "calculate_metrics_for_predictions" /\ Scenario) =>
        /\ pc # "raised"
        /\ pc = "returned" =>
             /\ metrics.true_positives = <<1, 1>>
             /\ RatEq(metrics.precision, <<1, 2>>)
             /\ RatEq(metrics.recall, <<1, 2>>)
             /\ RatEq(metrics.f1_score, <<1, 2>>)
             /\ metrics.false_positives = <<1, 1>>
             /\ metrics.false_negatives = <<1, 1>>

C8_Witness == MetricsReturned /\ Scenario /\ true_positives = 1

EmptyInput == Len(predicted_boxes) = 0 \/ Len(ground_truth_boxes) = 0

\* C9: with an empty predicted sequence, an empty ground-truth sequence or both,
\* and the default threshold, no call raises; find_true_positives returns
\* (0, {}), find_box_matches an empty map, calculate_metrics_for_predictions
\* precision = recall = f1_score = 0 and true_positives = 0.
C9_EmptyCollections ==
    (EmptyInput /\ iou_threshold = DefaultThreshold) =>
        /\ pc # "raised"
        /\ FtpReturned => (true_positives = 0 /\ matched_gt_boxes = {})
        /\ FbmReturned => matches = NoMatches
        /\ MetricsReturned =>
             /\ metrics.true_positives = <<0, 1>>
             /\ RatEq(metrics.precision, Zero)
             /\ RatEq(metrics.recall, Zero)
             /\ RatEq(metrics.f1_score, Zero)

\* predictions without any ground truth: the metrics are returned
C9_Witness ==
    /\ MetricsReturned /\ iou_threshold = DefaultThreshold
    /\ Len(predicted_boxes) = 2 /\ Len(ground_truth_boxes) = 0

\* C10: for all boxes a, b, zero-area and negative-size boxes included,
\* calculate_iou(a, b) returns a value v with 0 <= v <= 1.
C10_IoURange ==
    (op = "calculate_iou" /\ pc # "call") =>
        /\ ~iou_result.raised
        /\ RatGe(iou_result.val, Zero)
        /\ RatLe(iou_result.val, <<1, 1>>)

\* the range alone, on the calls that return
C10_RangeWhenReturned ==
    (op = "calculate_iou" /\ pc = "returned") =>
        (RatGe(iou_result.val, Zero) /\ RatLe(iou_result.val, <<1, 1>>))

ZeroArea(b) == b.width = 0 \/ b.height = 0

Proper(b) == b.width > 0 /\ b.height > 0

IoUCalled == op = "calculate_iou" /\ pc # "call"

\* C11: calculate_iou never raises on degenerate geometry: it returns 0.0 when
\* both boxes have zero area and coincide, and a zero-area box has IoU 0.0
\* with every box.
C11_DegenerateNeverRaises ==
    (IoUCalled /\ (ZeroArea(box_a) \/ ZeroArea(box_b))) =>
        (~iou_result.raised /\ RatEq(iou_result.val, Zero))

\* a zero-area box against a box of positive width and height: IoU 0.0
C11_ZeroAreaAgainstProper ==
    (IoUCalled /\ (ZeroArea(box_a) \/ ZeroArea(box_b))
               /\ (Proper(box_a) \/ Proper(box_b))) =>
        (~iou_result.raised /\ RatEq(iou_result.val, Zero))

\* C12: for all boxes a, b, calculate_iou(a, b) = calculate_iou(b, a) (the
\* same value, or both calls raise).
C12_IoUSymmetry == IoUCalled => iou_result = calculate_iou(box_b, box_a)

\* two different boxes that overlap in part
C12_Witness ==
    /\ IoUCalled /\ box_a # box_b /\ ~iou_result.raised
    /\ RatGt(iou_result.val, Zero) /\ RatLt(iou_result.val, <<1, 1>>)

\* the intersection extents of box_a and box_b, as lines 55-58 compute them
ExtentX == Min2(box_a.x + box_a.width, box_b.x + box_b.width) - Max2(box_a.x, box_b.x)
ExtentY == Min2(box_a.y + box_a.height, box_b.y + box_b.height) - Max2(box_a.y, box_b.y)

\* C14: whenever the intersection extent is negative on either axis
\* (x_right < x_left or y_bottom < y_top), calculate_iou returns exactly 0.0,
\* never a negative value; this covers a = (0,0,1,1), b = (5,5,1,1) and boxes of
\* negative width or height.
C14_NoOverlapClamp ==
    /\ (IoUCalled /\ (ExtentX < 0 \/ ExtentY < 0)) => iou_result = Value(Zero)
    /\ (IoUCalled /\ \E b \in {box_a, box_b} : b.width < 0 \/ b.height < 0) =>
           iou_result = Value(Zero)

\* the two disjoint boxes of the claim
C14_Witness ==
    /\ op = "calculate_iou" /\ pc = "returned"
    /\ box_a = Box(0, 0, 1, 1) /\ box_b = Box(5, 5, 1, 1)
    /\ ExtentX < 0 /\ ExtentY < 0

\* a box of negative width against a box it would otherwise cover
C14_NegativeWidthReached ==
    /\ op = "calculate_iou" /\ pc = "returned"
    /\ box_a = Box(2, 0, -1, 2) /\ box_b = Box(0, 0, 2, 2)

ThresholdAboveOne == RatGt(iou_threshold, <<1, 1>>)
ThresholdNegative == RatLt(iou_threshold, Zero)

\* the number of predictions for which a not-yet-consumed ground-truth box
\* remains when every earlier prediction has consumed one
WithBoxRemaining == Min2(Len(predicted_boxes), Len(ground_truth_boxes))

DegenerateResults ==
    /\ ThresholdAboveOne =>
         /\ (FtpReturned \/ MetricsReturned) => (true_positives = 0 /\ matched_gt_boxes = {})
         /\ FbmReturned => matches = NoMatches
    /\ ThresholdNegative =>
         /\ (FtpReturned \/ MetricsReturned) => true_positives >= WithBoxRemaining
         /\ FbmReturned => DOMAIN matches = 0..(WithBoxRemaining - 1)

\* C15: neither matching variant raises for a threshold below 0 or above 1;
\* above 1 no prediction is matched (count 0, empty set, empty map); below 0
\* every prediction for which a not-yet-consumed ground-truth box remains is
\* matched.
C15_UnvalidatedThresholds ==
    /\ (op \in MatchOps /\ (ThresholdAboveOne \/ ThresholdNegative)) => pc # "raised"
    /\ DegenerateResults

\* the degenerate results alone, on the calls that return
C15_DegenerateWhenReturned == DegenerateResults

\* with a negative threshold find_true_positives consumes a ground-truth box for
\* every prediction it counts
C15_NegativeConsumesABox ==
    (FtpReturned /\ ThresholdNegative) => NoneIdx \notin matched_gt_boxes

NumProper(b) == RatGt(b.width, Zero) /\ RatGt(b.height, Zero)
PositiveArea(b) == RatGt(<<b.width[1] * b.height[1], b.width[2] * b.height[2]>>, Zero)

SelfIoUCalled == IoUCalled /\ box_b = box_a

\* C13: for every box a of positive area, calculate_iou(a, a) = 1.0.
C13_SelfOverlap ==
    (SelfIoUCalled /\ arithmetic = "float" /\ PositiveArea(box_a)) =>
        iou_result = Value(<<1, 1>>)

\* the same with positive width and height
C13_SelfOverlapProper ==
    (SelfIoUCalled /\ arithmetic = "float" /\ NumProper(box_a)) =>
        iou_result = Value(<<1, 1>>)

\* in exact arithmetic a box of positive width and height has IoU 1 with itself
C13_SelfOverlapExact ==
    (SelfIoUCalled /\ arithmetic = "exact" /\ NumProper(box_a)) =>
        iou_result = Value(<<1, 1>>)

\* in exact arithmetic a box of positive area has IoU 1 with itself
C13_SelfOverlapExactArea ==
    (SelfIoUCalled /\ arithmetic = "exact" /\ PositiveArea(box_a)) =>
        iou_result = Value(<<1, 1>>)

\* a float self-overlap is never above 1
C13_SelfOverlapAtMostOne ==
    (SelfIoUCalled /\ ~iou_result.raised) => RatLe(iou_result.val, <<1, 1>>)

RoundTripped == op = "to_absolute_coordinates" /\ pc = "returned"

\* integer pixel coordinates inside an image of positive dimensions
PixelBoxInImage ==
    /\ args.image_width > 0 /\ args.image_height > 0
    /\ 0 <= args.x_min /\ args.x_min <= args.x_max /\ args.x_max <= args.image_width
    /\ 0 <= args.y_min /\ args.y_min <= args.y_max /\ args.y_max <= args.image_height

OriginalPixels == <<args.x_min, args.y_min, args.x_max, args.y_max>>

\* C16: for integer pixel coordinates 0 <= x_min <= x_max <= image_width and
\* 0 <= y_min <= y_max <= image_height in an image of positive dimensions,
\* from_absolute_coordinates followed by to_absolute_coordinates with the same
\* dimensions returns each coordinate within 1 pixel of the original.
C16_RoundTripWithinOnePixel ==
    (RoundTripped /\ PixelBoxInImage) =>
        \A i \in 1..4 : Abs(pixel_box[i] - OriginalPixels[i]) <= 1

\* a round trip in which truncation loses a pixel
C16_Witness ==
    /\ RoundTripped /\ PixelBoxInImage
    /\ \E i \in 1..4 : pixel_box[i] = OriginalPixels[i] - 1

\* the round trip returns the original coordinates
C16_RoundTripExact == (RoundTripped /\ PixelBoxInImage) => pixel_box = OriginalPixels

ZeroDimension == args.image_width = 0 \/ args.image_height = 0

FromAbsoluteCalled ==
    op \in {"from_absolute_coordinates", "to_absolute_coordinates"} /\ pc # "call"

C18_RaisesOnlyForZeroDimension == (FromAbsoluteCalled /\ pc = "raised") => ZeroDimension

PathwayDone == op \in Pathways /\ "x" \in DOMAIN args /\ pc # "call"

SameBox(b, c) ==
    /\ RatEq(b.x, c.x) /\ RatEq(b.y, c.y)
    /\ RatEq(b.width, c.width) /\ RatEq(b.height, c.height)

Described == Box(args.x, args.y, args.width, args.height)

\* C17: for a box with top-left (x, y) and size (w, h) and image dimensions
\* W, H > 0, BoundingBox(x, y, w, h), from_centroid(x + w/2, y + h/2, w, h) and
\* from_absolute_coordinates(x*W, y*H, (x+w)*W, (y+h)*H, W, H) yield equal x, y,
\* width and height in exact arithmetic.
C17_PathwaysAgree ==
    (PathwayDone /\ arithmetic = "exact") =>
        (pc = "built" /\ ~built.raised /\ SameBox(built.box, Described))

\* the absolute pathway has built a box whose fields are not dyadic
C17_Witness ==
    /\ PathwayDone /\ arithmetic = "exact" /\ pc = "built"
    /\ op = "from_absolute_coordinates"
    /\ args.x = <<1, 3>> /\ args.width = <<2, 3>> /\ args.image_width = Num(MaxPixels)

\* the centroid pathway has built a box
C17_CentroidReached ==
    /\ PathwayDone /\ arithmetic = "exact" /\ pc = "built"
    /\ op = "from_centroid" /\ args.x = <<1, 3>> /\ args.width = <<1, 2>>

\* the three pathways agree in float arithmetic too
C17_PathwaysAgreeInFloat ==
    (PathwayDone /\ arithmetic = "float") =>
        (pc = "built" /\ SameBox(built.box, Described))

Interleaved == op = "interleaved calls"

\* what a call hands back: how it ended and the values it returns
ResultOf(f) ==
    [pc |-> f.pc, true_positives |-> f.true_positives,
     matched_gt_boxes |-> f.matched_gt_boxes, matches |-> f.matches,
     metrics |-> f.metrics]

\* the call of frame f from its start, run alone
Alone(f) ==
    RunAlone(NewFrame(f.op, f.predicted_boxes, f.ground_truth_boxes, f.iou_threshold))

\* C19: when several matching calls run interleaved, each on its own box
\* collections, every call returns the result it returns when run alone.
C19_InterleavedAsAlone ==
    Interleaved =>
        \A c \in Callers :
            calls[c].pc # "loop" => ResultOf(calls[c]) = ResultOf(Alone(calls[c]))

\* both calls have returned, each having matched the ground-truth box of index
\* 0 of its own collection while the other was in its loop
C19_Witness ==
    /\ Interleaved
    /\ \A c \in Callers : calls[c].pc = "returned" /\ 0 \in calls[c].matched_gt_boxes
    /\ calls[1].op = "find_true_positives" /\ calls[2].op = "find_box_matches"
    /\ Len(calls[1].predicted_boxes) = 2 /\ Len(calls[2].predicted_boxes) = 2

FilterSaved == op = "filter_weather" /\ pc = "saved"

\* every filter condition of every group under remove_filters
RemoveConditions ==
    IF "remove_filters" \in DOMAIN filter_config
    THEN UNION {{filter_config.remove_filters[g].filters[i] :
                    i \in 1..Len(filter_config.remove_filters[g].filters)} :
                g \in 1..Len(filter_config.remove_filters)}
    ELSE {}

\* the row, as read, satisfies every criterion of the condition
Satisfies(row, condition) ==
    \A i \in 1..Len(condition) :
        LET c == condition[i].col
            k == condition[i].criteria
            v == row[c]
        IN  IF k.kind = "scalar" THEN v = k.value
            ELSE /\ "min" \in k.keys => (IF c = "timestamp" THEN v[1] >= k.min[1] ELSE v >= k.min)
                 /\ "max" \in k.keys => (IF c = "timestamp" THEN v[1] <= k.max[1] ELSE v <= k.max)

Removable(row) == \E condition \in RemoveConditions : Satisfies(row, condition)

\* a written row without the tag columns
AsRead(row) == [c \in DataColumns |-> row[c]]

InputRows == [i \in 1..Len(data_df.rows) |-> data_df.rows[i].row]
Survivors == LET Kept(row) == ~Removable(row) IN SelectSeq(InputRows, Kept)

\* C20: for any input CSV and filter configuration, the output written by the
\* filter command contains no row that satisfies a filter condition of a group
\* under remove_filters, and contains every input row that satisfies none.
C20_RemovalFilters ==
    FilterSaved =>
        [i \in 1..Len(output_file.rows) |-> AsRead(output_file.rows[i])] = Survivors

\* the test's data and configuration: of five rows two are written
C20_Witness ==
    /\ FilterSaved
    /\ data_df = Frame(SampleData) /\ filter_config = FixtureConfig
    /\ Len(output_file.rows) = 2

\* the groups under tag_filters, in order
TagFilters ==
    IF "tag_filters" \in DOMAIN filter_config THEN filter_config.tag_filters ELSE <<>>

\* the written row satisfies at least one filter condition of the group
SatisfiesGroup(row, group) ==
    \E k \in 1..Len(group.filters) : Satisfies(AsRead(row), group.filters[k])

\* C21 as stated: for each group under tag_filters the output has a column named
\* by the group's tag, True exactly for the surviving rows that satisfy at least
\* one of that group's filter conditions and False for every other row.
C21_TagFilters ==
    FilterSaved =>
        \A g \in 1..Len(TagFilters) :
            /\ TagFilters[g].tag \in output_file.columns
            /\ \A i \in 1..Len(output_file.rows) :
                   output_file.rows[i][TagFilters[g].tag]
                       = SatisfiesGroup(output_file.rows[i], TagFilters[g])

\* C21 amended: a tag column is written once and never reset, so the column of a
\* tag is True exactly for the surviving rows that satisfy at least one filter
\* condition of at least one group carrying that tag, and False for the others.
C21_TagFiltersAccumulate ==
    FilterSaved =>
        \A g \in 1..Len(TagFilters) :
            /\ TagFilters[g].tag \in output_file.columns
            /\ \A i \in 1..Len(output_file.rows) :
                   output_file.rows[i][TagFilters[g].tag]
                       = \E h \in 1..Len(TagFilters) :
                             /\ TagFilters[h].tag = TagFilters[g].tag
                             /\ SatisfiesGroup(output_file.rows[i], TagFilters[h])

\* two groups share a tag and a written row carries it for the second group only
C21_Witness ==
    /\ FilterSaved
    /\ Len(TagFilters) = 2
    /\ TagFilters[1].tag = TagFilters[2].tag
    /\ \E i \in 1..Len(output_file.rows) :
           /\ output_file.rows[i][TagFilters[1].tag]
           /\ ~SatisfiesGroup(output_file.rows[i], TagFilters[1])
           /\ SatisfiesGroup(output_file.rows[i], TagFilters[2])

\* the test's data and configuration: one of the two written rows is tagged
C21_FixtureTagged ==
    /\ FilterSaved
    /\ data_df = Frame(SampleData) /\ filter_config = FixtureConfig
    /\ {output_file.rows[i].OpticalRainGauge_malfunction : i \in 1..Len(output_file.rows)}
           = {TRUE, FALSE}

MergeSaved == op = "merge_command" /\ pc = "saved"

C22_UnmatchedKept ==
    /\ MergeSaved
    /\ Len(weather_df.rows) = 1 /\ Len(device_df.rows) = 1
    /\ weather_df.rows[1].row.device_id = 3
    /\ Len(output_file.rows) = 1 /\ output_file.rows[1].location = NaN

\* a device file with two entries for one device_id: the reading is written twice
C22_DuplicateDeviceEntry ==
    /\ MergeSaved
    /\ Len(weather_df.rows) = 1 /\ Len(device_df.rows) = 2
    /\ Len(output_file.rows) = 2

\* filter_weather has returned: the loop over the one file has ended, or the
\* command returned before it
FilterReturned == op = "filter_weather" /\ pc \in {"saved", "error logged", "returned"}

ErrorLogged == \E i \in 1..Len(log) : log[i].level = "error"

\* C23: when the filter file is not valid JSON, or when the input CSV file does
\* not exist, filter_weather logs an error and returns normally without
\* propagating an exception.
C23_BadInputsLogged ==
    FilterReturned /\ (~filter_file.valid \/ ~input_file.exists) =>
        ErrorLogged

\* the missing input file: logged by filter_weather, nothing written
C23_MissingInputLogged ==
    /\ FilterReturned /\ ~input_file.exists
    /\ ErrorLogged /\ output_file = NoFile

\* the invalid filter file: read_json_file prints and returns {}, no error is
\* logged and the input is written out unfiltered
C23_InvalidFilterFileIgnored ==
    /\ FilterReturned /\ ~filter_file.valid /\ input_file.exists
    /\ ~ErrorLogged
    /\ output_file = csv_of(data_df)
    /\ Len(output_file.rows) = MaxRows

\* C24: in both matching variants, whenever a predicted box is matched to a
\* ground-truth index, that index is the lowest-index box among the ground-truth
\* boxes not yet consumed that attain the maximum IoU with the predicted box, and
\* in find_true_positives a ground-truth box whose IoU with the predicted box is
\* 0 is never selected.
C24_BestCandidate ==
    /\ [][(find_true_positives_loop /\ pc' = "loop") =>
            /\ (best_gt_idx' # NoneIdx /\ matched_gt_boxes' # matched_gt_boxes)
                  => FirstBestIn(pred_idx, best_gt_idx', Unmatched)
            /\ best_gt_idx' # NoneIdx
                  => RatGt(PairIoU(pred_idx, best_gt_idx').val, Zero)]_vars
    /\ [][(find_box_matches_loop /\ pc' = "loop") =>
            ((pred_idx \in DOMAIN matches')
                  => FirstBestIn(pred_idx, matches'[pred_idx], Unused))]_vars

\* a predicted box with the same IoU to both ground-truth boxes, above the
\* threshold, is matched to the first by find_box_matches
C24_Witness ==
    /\ FbmReturned
    /\ Len(predicted_boxes) = 1 /\ Len(ground_truth_boxes) = 2
    /\ ground_truth_boxes[1] # ground_truth_boxes[2]
    /\ OverlapsAbove(0, 0, iou_threshold)
    /\ RatEq(PairIoU(0, 0).val, PairIoU(0, 1).val)
    /\ MatchedTo(0, 0)

\* the same tie in find_true_positives
C24_TieInFindTruePositives ==
    /\ FtpReturned
    /\ Len(predicted_boxes) = 1 /\ Len(ground_truth_boxes) = 2
    /\ ground_truth_boxes[1] # ground_truth_boxes[2]
    /\ OverlapsAtLeast(0, 0, iou_threshold)
    /\ RatEq(PairIoU(0, 0).val, PairIoU(0, 1).val)
    /\ matched_gt_boxes = {0}

\* the call of the same function on the first k predicted boxes, with the same
\* ground truth and threshold, run from its start to its end
PrefixRun(k) ==
    RunAlone(NewFrame(op, SubSeq(predicted_boxes, 1, k), ground_truth_boxes,
                      iou_threshold))

\* the map m restricted to the predicted indices below k
MatchesBelow(m, k) == [i \in {j \in DOMAIN m : j < k} |-> m[i]]

MatchingCall == op \in {"find_true_positives", "find_box_matches"}

\* the consumed set and the results of the call as they stand
Consumed == IF op = "find_box_matches" THEN used_gt_boxes ELSE matched_gt_boxes

\* C25: during a matching call the consumed ground-truth set only grows and a
\* recorded match never changes; after k predicted boxes the call has assigned
\* exactly what the same function returns on the first k predicted boxes, and the
\* map find_box_matches returns, restricted to a prefix, is the map it returns on
\* that prefix.
C25_GreedyPrefix ==
    /\ [][MatchingCall =>
            /\ matched_gt_boxes \subseteq matched_gt_boxes'
            /\ used_gt_boxes \subseteq used_gt_boxes'
            /\ true_positives <= true_positives'
            /\ \A k \in DOMAIN matches :
                   k \in DOMAIN matches' /\ matches'[k] = matches[k]]_vars
    /\ []((MatchingCall /\ pc \in {"loop", "returned"}) =>
            LET alone == PrefixRun(pred_idx)
            IN  /\ alone.pc = "returned"
                /\ alone.matched_gt_boxes = Consumed
                /\ alone.true_positives = true_positives
                /\ alone.matches = matches)
    /\ [](FbmReturned =>
            \A k \in 0..Len(predicted_boxes) :
                PrefixRun(k).matches = MatchesBelow(matches, k))

\* the second predicted box overlaps ground-truth box 0 most, which the first
\* has consumed: it is matched to box 1 and the first match stands
C25_Witness ==
    /\ FtpReturned /\ ThresholdInUnitInterval
    /\ Len(predicted_boxes) = 2 /\ Len(ground_truth_boxes) = 2
    /\ FirstBestIn(1, 0, GtIndices)
    /\ PrefixRun(1).matched_gt_boxes = {0}
    /\ matched_gt_boxes = {0, 1}

\* the call of the same function on the predicted boxes in reverse order
RECURSIVE Reverse(_)
Reverse(s) == IF s = <<>> THEN <<>> ELSE Reverse(Tail(s)) \o <<Head(s)>>

ReversedRun ==
    RunAlone(NewFrame(op, Reverse(predicted_boxes), ground_truth_boxes, iou_threshold))

\* two predicted boxes: the first ties on both ground-truth boxes at IoU 1/2, the
\* second has IoU 1 with ground-truth box 0 and 1/4 with box 1
TiedFirst == <<Box(0, 0, 2, 1), Box(0, 0, 2, 2)>>
ContestedGroundTruth == <<Box(0, 0, 2, 2), Box(0, 0, 1, 1)>>

\* C26: the result of find_true_positives is not invariant under reordering the
\* predicted boxes: on these boxes at threshold 1/2 one order returns the matched
\* set {0} and the other order returns {0, 1}.
C26_OrderDependence ==
    (FtpReturned /\ ground_truth_boxes = ContestedGroundTruth
                 /\ iou_threshold = DefaultThreshold) =>
        /\ predicted_boxes = TiedFirst => matched_gt_boxes = {0}
        /\ predicted_boxes = Reverse(TiedFirst) => matched_gt_boxes = {0, 1}

\* the call on the one order has returned {0}; on the other order it returns {0, 1}
C26_Witness ==
    /\ FtpReturned
    /\ predicted_boxes = TiedFirst /\ ground_truth_boxes = ContestedGroundTruth
    /\ iou_threshold = DefaultThreshold
    /\ matched_gt_boxes = {0} /\ true_positives = 1
    /\ ReversedRun.pc = "returned"
    /\ ReversedRun.matched_gt_boxes = {0, 1} /\ ReversedRun.true_positives = 2

\* the statement C26 denies: every order of the predicted boxes returns the same
\* matched set
C26_OrderInvariance ==
    FtpReturned => ReversedRun.matched_gt_boxes = matched_gt_boxes

\* find_box_matches on the arguments of the call, run from its start to its end
AsBoxMatches ==
    RunAlone(NewFrame("find_box_matches", predicted_boxes, ground_truth_boxes,
                      iou_threshold))

\* no predicted / ground-truth pair has an IoU equal to the threshold
NoPairAtThreshold ==
    \A i \in PredIndices : \A g \in GtIndices :
        PairIoU(i, g).raised \/ ~RatEq(PairIoU(i, g).val, iou_threshold)

\* C27: for a threshold t > 0 that no predicted / ground-truth pair has as its
\* IoU, the ground-truth indices in the map of find_box_matches are the matched
\* set find_true_positives returns, and the size of the map is the count of true
\* positives.
C27_VariantsAgree ==
    (FtpReturned /\ RatGt(iou_threshold, Zero) /\ NoPairAtThreshold) =>
        /\ AsBoxMatches.pc = "returned"
        /\ {AsBoxMatches.matches[k] : k \in DOMAIN AsBoxMatches.matches} = matched_gt_boxes
        /\ Cardinality(DOMAIN AsBoxMatches.matches) = true_positives

\* threshold 1/4, IoUs of 1 and 1/2 only: both predicted boxes are matched, by
\* either function
C27_Witness ==
    /\ FtpReturned /\ iou_threshold = <<1, 4>> /\ NoPairAtThreshold
    /\ Len(predicted_boxes) = 2 /\ Len(ground_truth_boxes) = 2
    /\ true_positives = 2 /\ matched_gt_boxes = {0, 1}
    /\ DOMAIN AsBoxMatches.matches = {0, 1}

\* at the boundary the two functions differ: a pair at the threshold is a true
\* positive and is not in the map
C27_BoundaryReached ==
    /\ FtpReturned /\ RatGt(iou_threshold, Zero) /\ ~NoPairAtThreshold
    /\ true_positives = 1
    /\ DOMAIN AsBoxMatches.matches = {}

FilterDataDone ==
    op \in {"apply_single_filter", "filter_weather_data"} /\ pc \in {"returned", "raised"}

\* the filter set names a column the frame does not have
NamesAbsentColumn(filter_set) ==
    \E i \in 1..Len(filter_set) : filter_set[i].col \notin data_df.columns

\* timestamp a is at or before timestamp b
NotAfter(a, b) == a[1] < b[1] \/ (a[1] = b[1] /\ a[2] <= b[2])

\* the row satisfies every criterion of the filter set, the bounds of a dict
\* criterion being bounds on the value of the column
SatisfiesValueBounds(row, filter_set) ==
    \A i \in 1..Len(filter_set) :
        LET c == filter_set[i].col
            k == filter_set[i].criteria
            v == row[c]
        IN  IF k.kind = "scalar" THEN v = k.value
            ELSE /\ "min" \in k.keys =>
                      (IF c = "timestamp" THEN NotAfter(k.min, v) ELSE v >= k.min)
                 /\ "max" \in k.keys =>
                      (IF c = "timestamp" THEN NotAfter(v, k.max) ELSE v <= k.max)

\* the labels of the rows of the frame that satisfy the filter set
LabelsByValue(filter_set) ==
    {data_df.rows[i].idx :
        i \in {j \in 1..Len(data_df.rows) : SatisfiesValueBounds(data_df.rows[j].row, filter_set)}}
LabelsByDate(filter_set) ==
    {data_df.rows[i].idx :
        i \in {j \in 1..Len(data_df.rows) : Satisfies(data_df.rows[j].row, filter_set)}}

\* the filter sets under the 'filters' key of the argument of filter_weather_data
FilterList == value_of(filter_config, "filters")
HasFilterList == "filters" \in keys_of(filter_config)

\* C28 as stated: apply_single_filter returns exactly the rows that satisfy all
\* criteria (equality for a scalar, inclusive min / max bounds on the value for a
\* dict) and raises ValueError when a criterion names an absent column;
\* filter_weather_data with a 'filters' list returns the union over the sets.
C28_FilterSemanticsAsStated ==
    /\ (FilterDataDone /\ op = "apply_single_filter") =>
           /\ matching_indices.raised = NamesAbsentColumn(filter_config)
           /\ ~matching_indices.raised =>
                  matching_indices.idx = LabelsByValue(filter_config)
    /\ (FilterDataDone /\ op = "filter_weather_data" /\ HasFilterList
           /\ ~matching_indices.raised) =>
           matching_indices.idx
               = UNION {LabelsByValue(FilterList[n]) : n \in 1..Len(FilterList)}

\* C28 amended: as stated, except that the min / max bounds of the timestamp
\* column are inclusive bounds on the calendar date of the timestamp, the time
\* of day being dropped on both sides; and filter_weather_data raises ValueError
\* when any of its filter sets names an absent column.
C28_FilterSemantics ==
    /\ (FilterDataDone /\ op = "apply_single_filter") =>
           /\ matching_indices.raised = NamesAbsentColumn(filter_config)
           /\ ~matching_indices.raised =>
                  matching_indices.idx = LabelsByDate(filter_config)
    /\ (FilterDataDone /\ op = "filter_weather_data" /\ HasFilterList) =>
           /\ matching_indices.raised
                  = \E n \in 1..Len(FilterList) : NamesAbsentColumn(FilterList[n])
           /\ ~matching_indices.raised =>
                  matching_indices.idx
                      = UNION {LabelsByDate(FilterList[n]) : n \in 1..Len(FilterList)}

\* two filter sets that match one row each: both rows are returned
C28_Witness ==
    /\ FilterDataDone /\ op = "filter_weather_data" /\ HasFilterList
    /\ Len(FilterList) = 2 /\ Len(data_df.rows) = 2
    /\ matching_indices = [raised |-> FALSE, idx |-> {0, 1}]
    /\ LabelsByDate(FilterList[1]) = {0} /\ LabelsByDate(FilterList[2]) = {1}

\* a reading at noon of day 6 is returned for the bound max = day 6, 0:00
C28_TimeOfDayDropped ==
    /\ FilterDataDone /\ op = "apply_single_filter" /\ filter_config = UntilDaySix
    /\ Len(data_df.rows) = 1 /\ data_df.rows[1].row.timestamp = <<6, 12>>
    /\ matching_indices = [raised |-> FALSE, idx |-> {0}]

\* a criterion on a column the frame does not have raises ValueError
C28_AbsentColumnRaises ==
    /\ FilterDataDone /\ op = "apply_single_filter" /\ filter_config = WindSpeed
    /\ pc = "raised"

BoxesCalled == op = "df_to_bounding_boxes" /\ results # <<>>

\* C29: df_to_bounding_boxes leaves the caller's columns list unchanged: over any
\* sequence of calls that pass the same list together with a file_name, the list
\* keeps its length and every call has the outcome of the first.
C29_ColumnsUnchanged ==
    /\ [][df_to_bounding_boxes_call => columns' = columns]_vars
    /\ [](BoxesCalled => \A i \in 1..Len(results) : results[i] = results[1])

\* the first call returns a named box and leaves the list of four with five
\* items; the second call with that list fails the column count
C29_SecondCallFails ==
    /\ BoxesCalled /\ method = "direct" /\ file_name = "image_name"
    /\ Len(results) = 2 /\ Len(boxes_df.rows) = 1
    /\ ~results[1].raised /\ results[1].boxes[1].name = boxes_df.rows[1].row.image_name
    /\ results[2].raised
    /\ columns = <<"x", "y", "width", "height", "image_name">>

\* the flatten command met files with a header and files without one
MixedHeaders ==
    /\ op = "flatten_weather"
    /\ pc # "start"
    /\ \E k \in DOMAIN header_locations : header_locations[k] = None
    /\ \E k \in DOMAIN header_locations : header_locations[k] = infer

\* C30: when some input files lack a header and at least one has one, a file
\* with a header stands first in the list, every file is read with the header
\* setting identify_header detects for that file, so every frame has the
\* column names of the header and neither a header line among its rows nor a
\* data line as its header
C30_HeaderHandling ==
    MixedHeaders =>
        /\ identify_header(files[1]) = infer
        /\ \A k \in DOMAIN reads :
               /\ reads[k].header = identify_header(files[k])
               /\ reads[k].df.columns = HeaderLine
               /\ \A r \in DOMAIN reads[k].df.rows : reads[k].df.rows[r] # HeaderLine

\* a file without a header listed before the file with one: after the swap the
\* header file is read with header=None, its header line as a row under the
\* names 0 and 1, and the other file with header='infer', its first data line
\* as the names; neither frame has the required columns and nothing is saved
C30_HeaderReadAsData ==
    /\ MixedHeaders /\ pc = "returned"
    /\ Len(files) = 2 /\ files[1].name = "h1.csv" /\ files[2].name = "n1.csv"
    /\ reads[1].header = None /\ reads[1].df.columns = <<"0", "1">>
    /\ reads[1].df.rows[1] = HeaderLine
    /\ reads[2].header = infer /\ reads[2].df.columns = <<"1", "{a}">>
    /\ written = <<>>

\* the file with the header listed first already: both files are read as
\* detected and both are saved
C30_HeaderFirstWorks ==
    /\ MixedHeaders /\ pc = "returned"
    /\ Len(files) = 2 /\ header_locations = <<infer, None>>
    /\ \A k \in 1..2 : reads[k].header = identify_header(files[k])
    /\ \A k \in 1..2 : reads[k].df.columns = HeaderLine
    /\ Len(written) = 2

====
